---- MODULE Spec2Model ----
(***************************************************************************)
(* Catalitium job search: the result cache, the job repository, the        *)
(* predicate builder and the route handlers of src/app, as state machines. *)
(*                                                                         *)
(* Text is a sequence of one-character strings; Python's None is the       *)
(* empty tuple and a present value x is <<x>> (see None / Some). The       *)
(* non-ASCII characters of the source are written by code point: "U+00C3"  *)
(* (its lower case is "U+00E3"), "U+00B6" and the en dash "U+2013".        *)
(***************************************************************************)
EXTENDS Integers, Sequences, FiniteSets, TLC

\* ------------------------------------------------------------------ text

LowerLetters ==
  <<"a","b","c","d","e","f","g","h","i","j","k","l","m",
    "n","o","p","q","r","s","t","u","v","w","x","y","z">>

UpperLetters ==
  <<"A","B","C","D","E","F","G","H","I","J","K","L","M",
    "N","O","P","Q","R","S","T","U","V","W","X","Y","Z">>

\* str.lower() on one character
LowerChar(c) ==
  IF \E i \in 1..26 : UpperLetters[i] = c
    THEN LowerLetters[CHOOSE i \in 1..26 : UpperLetters[i] = c]
  ELSE IF c = "U+00C3" THEN "U+00E3"
  ELSE c

\* str.upper() on one character
UpperChar(c) ==
  IF \E i \in 1..26 : LowerLetters[i] = c
    THEN UpperLetters[CHOOSE i \in 1..26 : LowerLetters[i] = c]
  ELSE IF c = "U+00E3" THEN "U+00C3"
  ELSE c

\* str.lower()
Lower(s) == [i \in 1..Len(s) |-> LowerChar(s[i])]

\* str.upper()
Upper(s) == [i \in 1..Len(s) |-> UpperChar(s[i])]

\* str.isalpha()
IsAlpha(s) ==
  /\ Len(s) > 0
  /\ \A i \in 1..Len(s) :
       \E j \in 1..26 : LowerLetters[j] = s[i] \/ UpperLetters[j] = s[i]

\* the characters str.strip() and str.split() treat as whitespace
IsSpace(c) == c \in {" ", "\t", "\n"}

\* str.strip()
Strip(s) ==
  LET idx == {i \in 1..Len(s) : ~IsSpace(s[i])}
  IN  IF idx = {} THEN <<>>
      ELSE LET lo == CHOOSE i \in idx : \A j \in idx : i <= j
               hi == CHOOSE i \in idx : \A j \in idx : j <= i
           IN  SubSeq(s, lo, hi)

\* str.split() with no argument: the maximal runs of non-whitespace
RECURSIVE Split(_)
Split(s) ==
  LET t == Strip(s)
  IN  IF t = <<>> THEN <<>>
      ELSE LET sp == {i \in 1..Len(t) : IsSpace(t[i])}
           IN  IF sp = {} THEN <<t>>
               ELSE LET k == CHOOSE i \in sp : \A j \in sp : i <= j
                    IN  <<SubSeq(t, 1, k - 1)>> \o Split(SubSeq(t, k + 1, Len(t)))

\* " ".join(words)
RECURSIVE JoinSpace(_)
JoinSpace(words) ==
  IF words = <<>> THEN <<>>
  ELSE IF Len(words) = 1 THEN words[1]
  ELSE words[1] \o <<" ">> \o JoinSpace(Tail(words))

\* Python's `sub in s` for strings
Contains(s, sub) ==
  \E i \in 0..(Len(s) - Len(sub)) : SubSeq(s, i + 1, i + Len(sub)) = sub

\* Python's None and a present value
None == <<>>

Some(x) == <<x>>

\* Python's `(x or "")` for an optional string
OrEmpty(o) == IF o = None THEN <<>> ELSE o[1]

\* Python's truth value of an optional string
Truthy(o) == o # None /\ o[1] # <<>>

\* the set of members of a sequence
Range(s) == {s[i] : i \in 1..Len(s)}

\* ------------------------------------------------------------------ LIKE

\* a text taken into a LIKE pattern as it is
escape_nothing(value) == value

\* Job._escape_like: backslash first, then % and _
RECURSIVE _escape_like(_)
_escape_like(value) ==
  IF value = <<>> THEN <<>>
  ELSE (IF value[1] \in {"\\", "%", "_"} THEN <<"\\", value[1]>> ELSE <<value[1]>>)
         \o _escape_like(Tail(value))

\* SQL: text LIKE pattern ESCAPE '\'
RECURSIVE Like(_, _)
Like(s, p) ==
  IF p = <<>> THEN s = <<>>
  ELSE IF p[1] = "%"
    THEN \E k \in 0..Len(s) : Like(SubSeq(s, k + 1, Len(s)), Tail(p))
  ELSE IF p[1] = "_"
    THEN s # <<>> /\ Like(Tail(s), Tail(p))
  ELSE IF p[1] = "\\"
    THEN /\ Len(p) >= 2
         /\ s # <<>>
         /\ s[1] = p[2]
         /\ Like(Tail(s), Tail(Tail(p)))
  ELSE s # <<>> /\ s[1] = p[1] /\ Like(Tail(s), Tail(p))

\* code-point order of the characters the model uses, for sorted() and ORDER BY
CodePoints ==
  <<"\t", "\n", " ", "%", "(", ")", ",", "-", ".", "/",
    "0", "1", "2", "3", "4", "5", "6", "7", "8", "9", "<", "=", ">">>
  \o UpperLetters \o <<"\\", "_">> \o LowerLetters
  \o <<"U+00B6", "U+00C3", "U+00E3">>

Ord(c) == CHOOSE i \in 1..Len(CodePoints) : CodePoints[i] = c

\* Python's `a < b` on strings
RECURSIVE LexLess(_, _)
LexLess(a, b) ==
  IF b = <<>> THEN FALSE
  ELSE IF a = <<>> THEN TRUE
  ELSE IF a[1] = b[1] THEN LexLess(Tail(a), Tail(b))
  ELSE Ord(a[1]) < Ord(b[1])

\* a string put at its place in a sorted list
RECURSIVE InsertSorted(_, _)
InsertSorted(x, sorted) ==
  IF sorted = <<>> THEN <<x>>
  ELSE IF LexLess(sorted[1], x) THEN <<sorted[1]>> \o InsertSorted(x, Tail(sorted))
  ELSE <<x>> \o sorted

\* Python's sorted() on a set of strings
RECURSIVE SortStrings(_)
SortStrings(S) ==
  IF S = {} THEN <<>>
  ELSE LET x == CHOOSE a \in S : TRUE
       IN  InsertSorted(x, SortStrings(S \ {x}))

\* list concatenation of a list of lists (by halves, to keep the recursion shallow)
RECURSIVE Flatten(_)
Flatten(ss) ==
  IF Len(ss) = 0 THEN <<>>
  ELSE IF Len(ss) = 1 THEN ss[1]
  ELSE LET h == Len(ss) \div 2
       IN  Flatten(SubSeq(ss, 1, h)) \o Flatten(SubSeq(ss, h + 1, Len(ss)))

\* ------------------------------------------------------------------ tables

\* the dict COUNTRY_NORM in insertion order: <<alias, code>>
COUNTRY_NORM ==
  << <<<<"d","e","u","t","s","c","h","l","a","n","d">>, <<"D","E">>>>,
     <<<<"g","e","r","m","a","n","y">>, <<"D","E">>>>,
     <<<<"d","e","u">>, <<"D","E">>>>, <<<<"d","e">>, <<"D","E">>>>,
     <<<<"s","w","i","t","z","e","r","l","a","n","d">>, <<"C","H">>>>,
     <<<<"s","c","h","w","e","i","z">>, <<"C","H">>>>,
     <<<<"s","u","i","s","s","e">>, <<"C","H">>>>,
     <<<<"s","v","i","z","z","e","r","a">>, <<"C","H">>>>,
     <<<<"c","h">>, <<"C","H">>>>,
     <<<<"a","u","s","t","r","i","a">>, <<"A","T">>>>,
     <<<<"U+00C3","U+00B6","s","t","e","r","r","e","i","c","h">>, <<"A","T">>>>,
     <<<<"a","t">>, <<"A","T">>>>,
     <<<<"e","u","r","o","p","e">>, <<"E","U">>>>,
     <<<<"e","u">>, <<"E","U">>>>, <<<<"e","u","r">>, <<"E","U">>>>,
     <<<<"e","u","r","o","p","e","a","n"," ","u","n","i","o","n">>, <<"E","U">>>>,
     <<<<"u","k">>, <<"U","K">>>>, <<<<"g","b">>, <<"U","K">>>>,
     <<<<"e","n","g","l","a","n","d">>, <<"U","K">>>>,
     <<<<"u","n","i","t","e","d"," ","k","i","n","g","d","o","m">>, <<"U","K">>>>,
     <<<<"u","s","a">>, <<"U","S">>>>,
     <<<<"u","n","i","t","e","d"," ","s","t","a","t","e","s">>, <<"U","S">>>>,
     <<<<"a","m","e","r","i","c","a">>, <<"U","S">>>>,
     <<<<"u","s">>, <<"U","S">>>>,
     <<<<"s","p","a","i","n">>, <<"E","S">>>>,
     <<<<"e","s">>, <<"E","S">>>>,
     <<<<"f","r","a","n","c","e">>, <<"F","R">>>>,
     <<<<"f","r">>, <<"F","R">>>>,
     <<<<"i","t","a","l","y">>, <<"I","T">>>>,
     <<<<"i","t">>, <<"I","T">>>>,
     <<<<"n","e","t","h","e","r","l","a","n","d","s">>, <<"N","L">>>>,
     <<<<"n","l">>, <<"N","L">>>>,
     <<<<"b","e","l","g","i","u","m">>, <<"B","E">>>>,
     <<<<"b","e">>, <<"B","E">>>>,
     <<<<"s","w","e","d","e","n">>, <<"S","E">>>>,
     <<<<"s","e">>, <<"S","E">>>>,
     <<<<"p","o","l","a","n","d">>, <<"P","L">>>>,
     <<<<"c","o","l","o","m","b","i","a">>, <<"C","O">>>>,
     <<<<"m","e","x","i","c","o">>, <<"M","X">>>>,
     <<<<"p","o","r","t","u","g","a","l">>, <<"P","T">>>>,
     <<<<"i","r","e","l","a","n","d">>, <<"I","E">>>>,
     <<<<"d","e","n","m","a","r","k">>, <<"D","K">>>>,
     <<<<"f","i","n","l","a","n","d">>, <<"F","I">>>>,
     <<<<"g","r","e","e","c","e">>, <<"G","R">>>>,
     <<<<"h","u","n","g","a","r","y">>, <<"H","U">>>>,
     <<<<"r","o","m","a","n","i","a">>, <<"R","O">>>>,
     <<<<"s","l","o","v","a","k","i","a">>, <<"S","K">>>>,
     <<<<"s","l","o","v","e","n","i","a">>, <<"S","I">>>>,
     <<<<"b","u","l","g","a","r","i","a">>, <<"B","G">>>>,
     <<<<"c","r","o","a","t","i","a">>, <<"H","R">>>>,
     <<<<"c","y","p","r","u","s">>, <<"C","Y">>>>,
     <<<<"c","z","e","c","h"," ","r","e","p","u","b","l","i","c">>, <<"C","Z">>>>,
     <<<<"c","z","e","c","h","i","a">>, <<"C","Z">>>>,
     <<<<"e","s","t","o","n","i","a">>, <<"E","E">>>>,
     <<<<"l","a","t","v","i","a">>, <<"L","V">>>>,
     <<<<"l","i","t","h","u","a","n","i","a">>, <<"L","T">>>>,
     <<<<"l","u","x","e","m","b","o","u","r","g">>, <<"L","U">>>>,
     <<<<"m","a","l","t","a">>, <<"M","T">>>>,
     <<<<"i","n","d","i","a">>, <<"I","N">>>>,
     <<<<"b","h","a","r","a","t">>, <<"I","N">>>>,
     <<<<"i","n">>, <<"I","N">>>> >>

\* the dict LOCATION_COUNTRY_HINTS in insertion order: <<hint, code>>
LOCATION_COUNTRY_HINTS ==
  << <<<<"a","m","s","t","e","r","d","a","m">>, <<"N","L">>>>,
     <<<<"a","t","l","a","n","t","a">>, <<"U","S">>>>,
     <<<<"a","u","s","t","i","n">>, <<"U","S">>>>,
     <<<<"b","a","r","c","e","l","o","n","a">>, <<"E","S">>>>,
     <<<<"b","e","l","g","i","u","m">>, <<"B","E">>>>,
     <<<<"b","e","r","l","i","n">>, <<"D","E">>>>,
     <<<<"b","e","r","l","i","n",","," ","d","e">>, <<"D","E">>>>,
     <<<<"b","o","s","t","o","n">>, <<"U","S">>>>,
     <<<<"b","r","u","s","s","e","l","s">>, <<"B","E">>>>,
     <<<<"b","u","d","a","p","e","s","t">>, <<"H","U">>>>,
     <<<<"c","h","a","r","l","o","t","t","e">>, <<"U","S">>>>,
     <<<<"c","h","i","c","a","g","o">>, <<"U","S">>>>,
     <<<<"c","o","p","e","n","h","a","g","e","n">>, <<"D","K">>>>,
     <<<<"d","a","l","l","a","s">>, <<"U","S">>>>,
     <<<<"d","e","n","m","a","r","k">>, <<"D","K">>>>,
     <<<<"d","e","n","v","e","r">>, <<"U","S">>>>,
     <<<<"d","u","b","l","i","n">>, <<"I","E">>>>,
     <<<<"f","r","a","n","c","e">>, <<"F","R">>>>,
     <<<<"f","r","a","n","k","f","u","r","t">>, <<"D","E">>>>,
     <<<<"g","e","r","m","a","n","y">>, <<"D","E">>>>,
     <<<<"h","a","m","b","u","r","g">>, <<"D","E">>>>,
     <<<<"h","o","u","s","t","o","n">>, <<"U","S">>>>,
     <<<<"i","t","a","l","y">>, <<"I","T">>>>,
     <<<<"l","i","s","b","o","n">>, <<"P","T">>>>,
     <<<<"l","o","n","d","o","n">>, <<"U","K">>>>,
     <<<<"l","o","s"," ","a","n","g","e","l","e","s">>, <<"U","S">>>>,
     <<<<"l","o","s">>, <<"U","S">>>>,
     <<<<"m","a","d","r","i","d">>, <<"E","S">>>>,
     <<<<"m","i","a","m","i">>, <<"U","S">>>>,
     <<<<"m","i","l","a","n">>, <<"I","T">>>>,
     <<<<"m","i","n","n","e","a","p","o","l","i","s">>, <<"U","S">>>>,
     <<<<"m","u","n","i","c","h">>, <<"D","E">>>>,
     <<<<"n","e","t","h","e","r","l","a","n","d","s">>, <<"N","L">>>>,
     <<<<"n","e","w"," ","y","o","r","k">>, <<"U","S">>>>,
     <<<<"o","s","l","o">>, <<"N","O">>>>,
     <<<<"p","a","r","i","s">>, <<"F","R">>>>,
     <<<<"p","h","i","l","a","d","e","l","p","h","i","a">>, <<"U","S">>>>,
     <<<<"p","h","o","e","n","i","x">>, <<"U","S">>>>,
     <<<<"p","i","t","t","s","b","u","r","g","h">>, <<"U","S">>>>,
     <<<<"p","o","r","t","l","a","n","d">>, <<"U","S">>>>,
     <<<<"p","o","r","t","o">>, <<"P","T">>>>,
     <<<<"p","o","r","t","u","g","a","l">>, <<"P","T">>>>,
     <<<<"p","r","a","g","u","e">>, <<"C","Z">>>>,
     <<<<"r","a","l","e","i","g","h">>, <<"U","S">>>>,
     <<<<"s","a","l","t"," ","l","a","k","e"," ","c","i","t","y">>, <<"U","S">>>>,
     <<<<"s","a","l","t">>, <<"U","S">>>>,
     <<<<"s","a","n"," ","f","r","a","n","c","i","s","c","o">>, <<"U","S">>>>,
     <<<<"s","e","a","t","t","l","e">>, <<"U","S">>>>,
     <<<<"s","p","a","i","n">>, <<"E","S">>>>,
     <<<<"s","t","o","c","k","h","o","l","m">>, <<"S","E">>>>,
     <<<<"s","w","i","t","z","e","r","l","a","n","d">>, <<"C","H">>>>,
     <<<<"t","a","l","l","i","n","n">>, <<"E","E">>>>,
     <<<<"u","k">>, <<"U","K">>>>,
     <<<<"v","i","e","n","n","a">>, <<"A","T">>>>,
     <<<<"w","a","s","h","i","n","g","t","o","n">>, <<"U","S">>>>,
     <<<<"z","u","r","i","c","h">>, <<"C","H">>>>,
     <<<<"b","a","n","g","a","l","o","r","e">>, <<"I","N">>>>,
     <<<<"b","e","n","g","a","l","u","r","u">>, <<"I","N">>>>,
     <<<<"m","u","m","b","a","i">>, <<"I","N">>>>,
     <<<<"p","u","n","e">>, <<"I","N">>>>,
     <<<<"d","e","l","h","i">>, <<"I","N">>>>,
     <<<<"n","e","w"," ","d","e","l","h","i">>, <<"I","N">>>>,
     <<<<"g","u","r","g","a","o","n">>, <<"I","N">>>>,
     <<<<"g","u","r","u","g","r","a","m">>, <<"I","N">>>>,
     <<<<"n","o","i","d","a">>, <<"I","N">>>>,
     <<<<"h","y","d","e","r","a","b","a","d">>, <<"I","N">>>>,
     <<<<"c","h","e","n","n","a","i">>, <<"I","N">>>>,
     <<<<"k","o","l","k","a","t","a">>, <<"I","N">>>>,
     <<<<"a","h","m","e","d","a","b","a","d">>, <<"I","N">>>> >>

\* Job._EU_CODES (and Job._EU_FILTER_CODES, a copy of it)
_EU_CODES ==
  << <<"A","T">>, <<"B","E">>, <<"B","G">>, <<"H","R">>, <<"C","Y">>,
     <<"C","Z">>, <<"D","K">>, <<"E","E">>, <<"F","I">>, <<"F","R">>,
     <<"D","E">>, <<"G","R">>, <<"H","U">>, <<"I","E">>, <<"I","T">>,
     <<"L","V">>, <<"L","T">>, <<"L","U">>, <<"M","T">>, <<"N","L">>,
     <<"P","L">>, <<"P","T">>, <<"R","O">>, <<"S","K">>, <<"S","I">>,
     <<"E","S">>, <<"S","E">> >>

eu_hubs ==
  << <<"m","a","d","r","i","d">>, <<"p","a","r","i","s">>,
     <<"b","e","r","l","i","n">>, <<"b","a","r","c","e","l","o","n","a">>,
     <<"m","i","l","a","n">>, <<"m","i","l","a","n","o">> >>

india_hubs ==
  << <<"b","a","n","g","a","l","o","r","e">>,
     <<"b","e","n","g","a","l","u","r","u">>, <<"m","u","m","b","a","i">>,
     <<"p","u","n","e">>, <<"d","e","l","h","i">>,
     <<"n","e","w"," ","d","e","l","h","i">>,
     <<"g","u","r","g","a","o","n">>, <<"g","u","r","u","g","r","a","m">>,
     <<"n","o","i","d","a">>, <<"h","y","d","e","r","a","b","a","d">>,
     <<"c","h","e","n","n","a","i">>, <<"k","o","l","k","a","t","a">>,
     <<"a","h","m","e","d","a","b","a","d">> >>

\* the list without its last city
high_pay_short ==
  << <<"s","a","n"," ","f","r","a","n","c","i","s","c","o">>,
     <<"n","e","w"," ","y","o","r","k">>, <<"z","u","r","i","c","h">>,
     <<"b","e","r","l","i","n">>, <<"p","a","r","i","s">>,
     <<"m","a","d","r","i","d">> >>

high_pay_cities ==
  << <<"s","a","n"," ","f","r","a","n","c","i","s","c","o">>,
     <<"n","e","w"," ","y","o","r","k">>, <<"z","u","r","i","c","h">>,
     <<"b","e","r","l","i","n">>, <<"p","a","r","i","s">>,
     <<"m","a","d","r","i","d">>, <<"l","o","n","d","o","n">> >>

dev_terms ==
  << <<"d","e","v","e","l","o","p","e","r">>,
     <<"p","r","o","g","r","a","m","m","e","r">>, <<"c","o","d","e","r">>,
     <<"s","o","f","t","w","a","r","e"," ","d","e","v","e","l","o","p","e","r">>,
     <<"s","o","f","t","w","a","r","e"," ","e","n","g","i","n","e","e","r">> >>

\* the India aliases of Job._country_patterns
india_aliases ==
  << <<"i","n","d","i","a">>, <<"b","h","a","r","a","t">>,
     <<"b","a","n","g","a","l","o","r","e">>,
     <<"b","e","n","g","a","l","u","r","u">>, <<"m","u","m","b","a","i">>,
     <<"p","u","n","e">>, <<"d","e","l","h","i">>,
     <<"n","e","w"," ","d","e","l","h","i">>,
     <<"g","u","r","g","a","o","n">>, <<"g","u","r","u","g","r","a","m">>,
     <<"n","o","i","d","a">>, <<"h","y","d","e","r","a","b","a","d">>,
     <<"c","h","e","n","n","a","i">>, <<"k","o","l","k","a","t","a">>,
     <<"a","h","m","e","d","a","b","a","d">> >>

seps_before == <<" ", "(", ",", "/", "-">>

seps_after == <<" ", ")", ",", "/", "-">>

columns_to_search == <<"location", "city", "region", "country">>

\* ------------------------------------------------------------------ Job._where

\* Job._normalize_title
_normalize_title(value) == Lower(Strip(OrEmpty(value)))

\* b after a, without the elements of b that a holds
UniqueJoin(a, b) == a \o SelectSeq(b, LAMBDA x : \A i \in 1..Len(a) : a[i] # x)

\* a list without the repetitions of its elements (by halves)
RECURSIVE Unique(_)
Unique(s) ==
  IF Len(s) <= 1 THEN s
  ELSE UniqueJoin(Unique(SubSeq(s, 1, Len(s) \div 2)),
                  Unique(SubSeq(s, Len(s) \div 2 + 1, Len(s))))

\* add_like of Job._country_patterns: append the patterns not seen before
add_like(patterns, new) == UniqueJoin(patterns, Unique(new))

\* f"%{_escape_like(value)}%"
Wrapped(value) == <<"%">> \o _escape_like(value) \o <<"%">>

WrapAll(list) == [i \in 1..Len(list) |-> Wrapped(list[i])]

LowerAll(list) == [i \in 1..Len(list) |-> Lower(list[i])]

\* the separator patterns of Job._country_patterns for an escaped token
SepPatterns(token) ==
  Flatten([b \in 1..Len(seps_before) |->
    [a \in 1..(Len(seps_after) + 1) |->
       IF a <= Len(seps_after)
         THEN <<"%", seps_before[b]>> \o token \o <<seps_after[a], "%">>
         ELSE <<"%", seps_before[b]>> \o token]])

\* the aliases of COUNTRY_NORM longer than two characters that map to a code, sorted
CountryAliases(code) ==
  SortStrings({Lower(COUNTRY_NORM[i][1]) : i \in
                 {j \in 1..Len(COUNTRY_NORM) :
                    /\ Upper(COUNTRY_NORM[j][2]) = code
                    /\ Len(COUNTRY_NORM[j][1]) > 2}})

\* the entries of LOCATION_COUNTRY_HINTS that map to a code
CountryHints(code) == SelectSeq(LOCATION_COUNTRY_HINTS, LAMBDA h : Upper(h[2]) = code)

\* the body of Job._country_patterns for one upper-cased code
PatternsOf(code, token, aliases, hints) ==
  [patterns |->
     add_like(<<>>,
       (IF code = <<"I","N">> THEN WrapAll(india_aliases)
        ELSE SepPatterns(token)
               \o (IF Len(code) > 2 THEN <<<<"%">> \o token \o <<"%">>>> ELSE <<>>))
       \o (IF code = <<"E","U">> THEN <<Wrapped(<<"e","u">>)>> ELSE <<>>)
       \o WrapAll(aliases)
       \o WrapAll([i \in 1..Len(hints) |-> hints[i][1]])),
   equals |->
     SortStrings((IF code = <<"I","N">> THEN {<<"i","n">>, <<"i","n","d","i","a">>} ELSE {Lower(code)})
       \cup {hints[i][1] : i \in {j \in 1..Len(hints) : Len(hints[j][1]) <= 3}})]

\* Job._country_patterns for the one-element code sets its callers pass:
\* [patterns |-> the LIKE patterns in order, equals |-> sorted(equals)]
_country_patterns(code0) ==
  PatternsOf(Upper(code0), _escape_like(Lower(Upper(code0))),
             CountryAliases(Upper(code0)), CountryHints(Upper(code0)))

\* one comparison of a WHERE clause: column, SQL operator, its parameters
\*   "ILIKE" : col ILIKE %s ESCAPE '\'
\*   "LIKE"  : LOWER(col) LIKE %s ESCAPE '\'   (COALESCE(col, '') for the location columns)
\*   "="     : LOWER(COALESCE(col, '')) = %s
\*   "IN"    : LOWER(COALESCE(col, '')) IN (%s, ...)
Leaf(col, op, params) == [col |-> col, op |-> op, params |-> params]

\* the three text columns a title pattern is matched against
TitleLeaves(like) ==
  << Leaf("job_title_norm", "ILIKE", <<like>>),
     Leaf("job_title", "LIKE", <<like>>),
     Leaf("job_description", "LIKE", <<like>>) >>

HasToken(tokens, word) == \E i \in 1..Len(tokens) : tokens[i] = word

\* core_query of Job._where: the tokens other than "remote" and "developer"
CoreQuery(tokens) ==
  Strip(JoinSpace(SelectSeq(tokens, LAMBDA tok : tok \notin {<<"r","e","m","o","t","e">>, <<"d","e","v","e","l","o","p","e","r">>})))

\* the title clauses for the tokens of a normalised title
TokenClauses(tokens, core_query) ==
  (IF core_query # <<>> THEN <<TitleLeaves(Wrapped(core_query))>> ELSE <<>>)
  \o (IF HasToken(tokens, <<"r","e","m","o","t","e">>)
        THEN <<TitleLeaves(Wrapped(<<"r","e","m","o","t","e">>))
                 \o <<Leaf("location", "LIKE", <<Wrapped(<<"r","e","m","o","t","e">>)>>)>>>>
        ELSE <<>>)
  \o (IF HasToken(tokens, <<"d","e","v","e","l","o","p","e","r">>)
        THEN <<Flatten([i \in 1..Len(dev_terms) |-> TitleLeaves(Wrapped(dev_terms[i]))])>>
        ELSE <<>>)

NormClauses(t_norm) ==
  IF t_norm = <<>> THEN <<>>
  ELSE TokenClauses(Split(t_norm), CoreQuery(Split(t_norm)))

\* the title clauses of Job._where: each clause is a list of OR'd comparisons
TitleClauses(title) ==
  IF ~Truthy(title) THEN <<>> ELSE NormClauses(_normalize_title(title))

\* one comparison per location column and value
ColumnLeaves(op, values) ==
  Flatten([i \in 1..Len(values) |->
    [c \in 1..Len(columns_to_search) |-> Leaf(columns_to_search[c], op, <<values[i]>>)]])

PatternLeaves(cp) ==
  ColumnLeaves("=", LowerAll(cp.equals)) \o ColumnLeaves("LIKE", cp.patterns)

\* the equality and LIKE comparisons of the country-code branches
CodeLeaves(code) == PatternLeaves(_country_patterns(code))

\* sorted(Job._EU_CODES)
eu_codes == SortStrings(Range(_EU_CODES))

\* code of Job._where: the input when it is two letters
CodeOf(upper) == IF Len(upper) = 2 /\ IsAlpha(upper) THEN Some(upper) ELSE None

\* the comparisons of the country clause, branch by branch
CountrySub(c_raw, upper, code) ==
  IF upper = <<"H","I","G","H","_","P","A","Y">>
    THEN <<Leaf("city", "IN", LowerAll(high_pay_cities))>>
  ELSE IF upper = <<"E","U">>
    THEN <<Leaf("country", "IN", LowerAll(eu_codes)),
           Leaf("city", "IN", LowerAll(eu_hubs))>>
  ELSE IF code = Some(<<"I","N">>)
    THEN <<Leaf("country", "=", <<<<"i","n">>>>),
           Leaf("city", "IN", LowerAll(india_hubs))>>
  ELSE IF upper = <<"C","H">> \/ code # None
    THEN CodeLeaves(IF upper = <<"C","H">> THEN <<"C","H">> ELSE code[1])
  ELSE ColumnLeaves("LIKE", <<Wrapped(c_raw)>>)

\* location_clauses.append("(" + " OR ".join(sub) + ")") when sub is not empty
ClauseList(sub) == IF sub # <<>> THEN <<sub>> ELSE <<>>

RawClauses(c_raw) ==
  IF c_raw = <<>> THEN <<>>
  ELSE ClauseList(CountrySub(c_raw, Upper(c_raw), CodeOf(Upper(c_raw))))

\* the country clause of Job._where (at most one clause)
CountryClauses(country) ==
  IF ~Truthy(country) THEN <<>> ELSE RawClauses(Lower(Strip(OrEmpty(country))))

\* the parameter list of a list of clauses, in order
ParamsOf(clauses) ==
  Flatten([i \in 1..Len(clauses) |->
    Flatten([j \in 1..Len(clauses[i]) |-> clauses[i][j].params])])

WhereOf(clauses, params) ==
  [clauses |-> clauses, params_pg |-> params, params_sqlite |-> params]

WhereClauses(clauses) == WhereOf(clauses, ParamsOf(clauses))

\* Job._where: the AND'ed clauses and the parameter list; the pg and the
\* sqlite lists are extended with the same values in the same order
_where(title, country) == WhereClauses(TitleClauses(title) \o CountryClauses(country))

\* ---- the SQL text of Job._where, in both dialects
\*
\* SQL text is a sequence of pieces; a placeholder ("%s" for pg, "?" for
\* sqlite) is a piece of its own. A fragment carries the two texts and the
\* two parameter lists the source extends side by side.
Frag(pg, sqlite, params_pg, params_sqlite) ==
  [pg |-> pg, sqlite |-> sqlite, params_pg |-> params_pg, params_sqlite |-> params_sqlite]

NoFrag == Frag(<<>>, <<>>, <<>>, <<>>)

\* sep.join(texts) (by halves, to keep the recursion shallow)
RECURSIVE JoinSql(_, _)
JoinSql(texts, sep) ==
  IF Len(texts) = 0 THEN <<>>
  ELSE IF Len(texts) = 1 THEN texts[1]
  ELSE LET h == Len(texts) \div 2
       IN  JoinSql(SubSeq(texts, 1, h), sep) \o <<sep>>
             \o JoinSql(SubSeq(texts, h + 1, Len(texts)), sep)

\* "(" + " OR ".join(...) + ")" over the fragments of a list, the
\* parameters in the order of the list
OrFrags(frags) ==
  Frag(<<"(">> \o JoinSql([i \in 1..Len(frags) |-> frags[i].pg], " OR ") \o <<")">>,
       <<"(">> \o JoinSql([i \in 1..Len(frags) |-> frags[i].sqlite], " OR ") \o <<")">>,
       Flatten([i \in 1..Len(frags) |-> frags[i].params_pg]),
       Flatten([i \in 1..Len(frags) |-> frags[i].params_sqlite]))

\* the three comparisons of a title pattern, as the source writes them
TitleFrags(like) ==
  << Frag(<<"job_title_norm ILIKE ", "%s", " ESCAPE '\\'">>,
          <<"job_title_norm LIKE ", "?", " ESCAPE '\\'">>, <<like>>, <<like>>),
     Frag(<<"LOWER(job_title) LIKE ", "%s", " ESCAPE '\\'">>,
          <<"LOWER(job_title) LIKE ", "?", " ESCAPE '\\'">>, <<like>>, <<like>>),
     Frag(<<"LOWER(job_description) LIKE ", "%s", " ESCAPE '\\'">>,
          <<"LOWER(job_description) LIKE ", "?", " ESCAPE '\\'">>, <<like>>, <<like>>) >>

\* the fourth comparison with params_sqlite left as it was
remote_unbound(like) ==
  Frag(<<"LOWER(location) LIKE ", "%s", " ESCAPE '\\'">>,
       <<"LOWER(location) LIKE ", "?", " ESCAPE '\\'">>, <<like>>, <<>>)

\* clause_pg_remote / clause_sqlite_remote: the fourth comparison
RemoteFrag(like) ==
  Frag(<<"LOWER(location) LIKE ", "%s", " ESCAPE '\\'">>,
       <<"LOWER(location) LIKE ", "?", " ESCAPE '\\'">>, <<like>>, <<like>>)

\* the title clauses, one fragment per clause
TokenFrags(tokens, core_query) ==
  (IF core_query # <<>> THEN <<OrFrags(TitleFrags(Wrapped(core_query)))>> ELSE <<>>)
  \o (IF HasToken(tokens, <<"r","e","m","o","t","e">>)
        THEN <<OrFrags(TitleFrags(Wrapped(<<"r","e","m","o","t","e">>))
                         \o <<RemoteFrag(Wrapped(<<"r","e","m","o","t","e">>))>>)>>
        ELSE <<>>)
  \o (IF HasToken(tokens, <<"d","e","v","e","l","o","p","e","r">>)
        THEN <<OrFrags(Flatten([i \in 1..Len(dev_terms) |->
                                  TitleFrags(Wrapped(dev_terms[i]))]))>>
        ELSE <<>>)

NormFrags(t_norm) ==
  IF t_norm = <<>> THEN <<>>
  ELSE TokenFrags(Split(t_norm), CoreQuery(Split(t_norm)))

TitleSql(title) ==
  IF ~Truthy(title) THEN <<>> ELSE NormFrags(_normalize_title(title))

\* ", ".join([mark] * n)
Marks(n, mark) == JoinSql([i \in 1..n |-> <<mark>>], ", ")

\* LOWER(COALESCE(<column>, '')) IN (<placeholders>), with its values
InFrag(column, values) ==
  Frag(<<"LOWER(COALESCE(", column, ", '')) IN (">> \o Marks(Len(values), "%s") \o <<")">>,
       <<"LOWER(COALESCE(", column, ", '')) IN (">> \o Marks(Len(values), "?") \o <<")">>,
       values, values)

\* LOWER(COALESCE(<column>, '')) = <placeholder>
EqFrag(column, value) ==
  Frag(<<"LOWER(COALESCE(", column, ", '')) = ", "%s">>,
       <<"LOWER(COALESCE(", column, ", '')) = ", "?">>, <<value>>, <<value>>)

\* LOWER(COALESCE(<column>, '')) LIKE <placeholder> ESCAPE '\'
LikeFrag(column, pattern) ==
  Frag(<<"LOWER(COALESCE(", column, ", '')) LIKE ", "%s", " ESCAPE '\\'">>,
       <<"LOWER(COALESCE(", column, ", '')) LIKE ", "?", " ESCAPE '\\'">>,
       <<pattern>>, <<pattern>>)

\* one fragment per value and column, values first
EqFrags(values) ==
  Flatten([i \in 1..Len(values) |->
    [c \in 1..Len(columns_to_search) |-> EqFrag(columns_to_search[c], values[i])]])

LikeFrags(patterns) ==
  Flatten([i \in 1..Len(patterns) |->
    [c \in 1..Len(columns_to_search) |-> LikeFrag(columns_to_search[c], patterns[i])]])

\* the subclauses of a country-code branch: the equalities in one
\* parenthesis, the LIKEs in another
CodeFrags(cp) ==
  (IF cp.equals # <<>> THEN <<OrFrags(EqFrags(LowerAll(cp.equals)))>> ELSE <<>>)
  \o (IF cp.patterns # <<>> THEN <<OrFrags(LikeFrags(cp.patterns))>> ELSE <<>>)

\* the subclauses of the country clause, branch by branch
CountryFrags(c_raw, upper, code) ==
  IF upper = <<"H","I","G","H","_","P","A","Y">>
    THEN <<InFrag("city", LowerAll(high_pay_cities))>>
  ELSE IF upper = <<"E","U">>
    THEN <<InFrag("country", LowerAll(eu_codes)), InFrag("city", LowerAll(eu_hubs))>>
  ELSE IF code = Some(<<"I","N">>)
    THEN <<EqFrag("country", <<"i","n">>), InFrag("city", LowerAll(india_hubs))>>
  ELSE IF upper = <<"C","H">> \/ code # None
    THEN CodeFrags(_country_patterns(IF upper = <<"C","H">> THEN <<"C","H">> ELSE code[1]))
  ELSE <<OrFrags(LikeFrags(<<Wrapped(c_raw)>>))>>

RawFrags(c_raw) ==
  IF c_raw = <<>> THEN <<>>
  ELSE <<OrFrags(CountryFrags(c_raw, Upper(c_raw), CodeOf(Upper(c_raw))))>>

CountrySql(country) ==
  IF ~Truthy(country) THEN <<>> ELSE RawFrags(Lower(Strip(OrEmpty(country))))

\* f"WHERE {' AND '.join(clauses)}" if clauses else ""
WhereText(texts) == IF texts = <<>> THEN <<>> ELSE <<"WHERE ">> \o JoinSql(texts, " AND ")

\* the value Job._where returns: ({"pg": ..., "sqlite": ...},
\* tuple(params_sqlite), tuple(params_pg))
WhereSql(frags) ==
  [pg |-> WhereText([i \in 1..Len(frags) |-> frags[i].pg]),
   sqlite |-> WhereText([i \in 1..Len(frags) |-> frags[i].sqlite]),
   params_sqlite |-> Flatten([i \in 1..Len(frags) |-> frags[i].params_sqlite]),
   params_pg |-> Flatten([i \in 1..Len(frags) |-> frags[i].params_pg])]

_where_sql(title, country) == WhereSql(TitleSql(title) \o CountrySql(country))

\* Job._order_by: the hub names of the CASE expression, in WHEN order
\* (none for the default order)
_order_by(country) ==
  IF ~Truthy(country) THEN <<>>
  ELSE LET code == Upper(Strip(country[1]))
       IN  IF code = <<"E","U">>
             THEN <<<<"m","a","d","r","i","d">>, <<"p","a","r","i","s">>, <<"b","e","r","l","i","n">>, <<"b","a","r","c","e","l","o","n","a">>, <<"m","i","l","a","n">>, <<"m","i","l","a","n","o">>>>
           ELSE IF code = <<"H","I","G","H","_","P","A","Y">>
             THEN <<<<"s","a","n"," ","f","r","a","n","c","i","s","c","o">>, <<"n","e","w"," ","y","o","r","k">>, <<"z","u","r","i","c","h">>, <<"b","e","r","l","i","n">>, <<"p","a","r","i","s">>,
                    <<"m","a","d","r","i","d">>, <<"l","o","n","d","o","n">>>>
           ELSE <<>>

\* ------------------------------------------------------------------ jobs table

\* Python's `a or b` on strings
PyOr(a, b) == IF a # <<>> THEN a ELSE b

\* whether a stored row satisfies one comparison (PostgreSQL semantics)
LeafHolds(row, leaf) ==
  LET v == Lower(row[leaf.col])
  IN  CASE leaf.op = "ILIKE" -> Like(v, Lower(leaf.params[1]))
        [] leaf.op = "LIKE"  -> Like(v, leaf.params[1])
        [] leaf.op = "="     -> v = leaf.params[1]
        [] leaf.op = "IN"    -> \E i \in 1..Len(leaf.params) : v = leaf.params[i]

\* whether a stored row satisfies the WHERE of Job._where: every clause
\* holds, a clause holding when one of its comparisons does
WhereHolds(row, w) ==
  \A i \in 1..Len(w.clauses) :
    \E j \in 1..Len(w.clauses[i]) : LeafHolds(row, w.clauses[i][j])

\* the value of the CASE expression of Job._order_by for a row
HubPriority(row, hubs) ==
  LET hit == {i \in 1..Len(hubs) :
                Like(Lower(row.location), <<"%">> \o hubs[i] \o <<"%">>)}
  IN  IF hit = {} THEN Len(hubs)
      ELSE (CHOOSE i \in hit : \A j \in hit : i <= j) - 1

\* the same ORDER BY with date ASC
row_before_oldest(a, b, hubs) ==
  LET pa == HubPriority(a, hubs)
      pb == HubPriority(b, hubs)
      na == IF a.date = None THEN 1 ELSE 0
      nb == IF b.date = None THEN 1 ELSE 0
  IN  IF pa # pb THEN pa < pb
      ELSE IF na # nb THEN na < nb
      ELSE IF a.date # b.date THEN LexLess(a.date[1], b.date[1])
      ELSE a.id > b.id

\* ORDER BY [CASE ...,] (date IS NULL) ASC, date DESC, id DESC:
\* whether row a is placed before row b
RowBefore(a, b, hubs) ==
  LET pa == HubPriority(a, hubs)
      pb == HubPriority(b, hubs)
      na == IF a.date = None THEN 1 ELSE 0
      nb == IF b.date = None THEN 1 ELSE 0
  IN  IF pa # pb THEN pa < pb
      ELSE IF na # nb THEN na < nb
      ELSE IF a.date # b.date THEN LexLess(b.date[1], a.date[1])
      ELSE a.id > b.id

\* the rows of a set in ORDER BY order
RECURSIVE OrderRows(_, _)
OrderRows(S, hubs) ==
  IF S = {} THEN <<>>
  ELSE LET first == CHOOSE a \in S : \A b \in S : a = b \/ RowBefore(a, b, hubs)
       IN  <<first>> \o OrderRows(S \ {first}, hubs)

\* the columns Job.search selects
SearchRow(row) ==
  [id |-> row.id, job_title |-> row.job_title, job_title_norm |-> row.job_title_norm,
   job_description |-> row.job_description, location |-> row.location,
   country |-> row.country, link |-> row.link, date |-> row.date]

CountWhere(table, w) == Cardinality({i \in 1..Len(table) : WhereHolds(table[i], w)})

\* SELECT COUNT(1) FROM jobs <where>
SelectCount(table, title, country) == CountWhere(table, _where(title, country))

Matching(table, w) == {table[i] : i \in {j \in 1..Len(table) : WhereHolds(table[j], w)}}

\* LIMIT limit OFFSET offset, and the selected columns
Page(ordered, limit, offset) ==
  [i \in 1..((IF offset + limit < Len(ordered) THEN offset + limit ELSE Len(ordered))
               - offset) |-> SearchRow(ordered[offset + i])]

\* SELECT ... FROM jobs <where> <order by> LIMIT limit OFFSET offset
SelectRows(table, title, country, limit, offset) ==
  Page(OrderRows(Matching(table, _where(title, country)), _order_by(country)),
       limit, offset)

\* the tuple Job.insert_many builds for one submitted row ("" stands for a
\* missing key, None or the empty string: `or` treats them alike)
Payload(row) ==
  LET title == PyOr(row.job_title, row.title)
  IN  [job_title |-> title,
       job_title_norm |-> _normalize_title(Some(PyOr(row.job_title_norm, title))),
       job_description |-> PyOr(row.job_description, row.description),
       location |-> PyOr(row.location, row.job_location),
       city |-> row.city,
       region |-> row.region,
       country |-> PyOr(row.country, row.country_code),
       link |-> PyOr(row.link, PyOr(row.job_link, row.url)),
       date |-> PyOr(row.date, PyOr(row.job_date, PyOr(row.date_posted, row.posted_at)))]

\* an INSERT that stores the tuple whatever its link
InsertAlways(table, p) ==
  Append(table,
    [id |-> Len(table) + 1, job_title |-> p.job_title,
     job_title_norm |-> p.job_title_norm, job_description |-> p.job_description,
     location |-> p.location, city |-> p.city, region |-> p.region,
     country |-> p.country, link |-> p.link, date |-> Some(p.date)])

\* INSERT INTO jobs ... ON CONFLICT (link) DO NOTHING, for one tuple: the
\* store assigns the next id
InsertOne(table, p) ==
  IF \E i \in 1..Len(table) : table[i].link = p.link THEN table
  ELSE Append(table,
         [id |-> Len(table) + 1, job_title |-> p.job_title,
          job_title_norm |-> p.job_title_norm, job_description |-> p.job_description,
          location |-> p.location, city |-> p.city, region |-> p.region,
          country |-> p.country, link |-> p.link, date |-> Some(p.date)])

\* Job.insert_many: executemany over the payload, in order
RECURSIVE insert_many(_, _)
insert_many(table, rows) ==
  IF rows = <<>> THEN table
  ELSE insert_many(InsertOne(table, Payload(rows[1])), Tail(rows))

Digits == <<"0", "1", "2", "3", "4", "5", "6", "7", "8", "9">>

\* int(value) for a string of decimal digits
RECURSIVE DigitsValue(_)
DigitsValue(s) ==
  IF s = <<>> THEN 0
  ELSE 10 * DigitsValue(SubSeq(s, 1, Len(s) - 1))
         + (CHOOSE d \in 1..10 : Digits[d] = s[Len(s)]) - 1

\* int(value): Some(n) for a string of decimal digits, None where int()
\* raises ValueError (signs and digit separators are not modelled)
ParseInt(s) ==
  IF s # <<>> /\ \A i \in 1..Len(s) : s[i] \in Range(Digits)
    THEN Some(DigitsValue(s)) ELSE None

\* Job.get_link: the stripped link of the job with this id, or None
get_link(table, job_id) ==
  LET value == Strip(OrEmpty(job_id))
      value_param == ParseInt(value)
      hits == {i \in 1..Len(table) : value_param # None /\ table[i].id = value_param[1]}
  IN  IF job_id = None \/ value = <<>> \/ hits = {} THEN None
      ELSE Some(Strip(table[CHOOSE i \in hits : TRUE].link))

\* ------------------------------------------------------------------ result cache

\* Job._CACHE_TTL, seconds
_CACHE_TTL == 30

\* Job._CACHE_MAX, scaled down from the source's 128 so that a run fills a cache
_CACHE_MAX == 2

\* A dict is the sequence of its entries [key, at, value] in insertion order;
\* `at` is the time.time() of the write.

\* dict.get(key): Some(entry) or None
DictGet(d, key) ==
  IF \E i \in 1..Len(d) : d[i].key = key
    THEN Some(d[CHOOSE i \in 1..Len(d) : d[i].key = key])
    ELSE None

\* d[key] = (at, value): an existing key keeps its place
DictSet(d, key, at, value) ==
  LET e == [key |-> key, at |-> at, value |-> value]
  IN  IF \E i \in 1..Len(d) : d[i].key = key
        THEN [i \in 1..Len(d) |-> IF d[i].key = key THEN e ELSE d[i]]
        ELSE Append(d, e)

\* d.pop(key, None)
DictPop(d, key) == SelectSeq(d, LAMBDA e : e.key # key)

\* sorted(target.items(), key=lambda kv: kv[1][0]): stable, by write time
SortedByAt(d) ==
  LET rank(i) == Cardinality({j \in 1..Len(d) :
                    d[j].at < d[i].at \/ (d[j].at = d[i].at /\ j < i)})
  IN  [k \in 1..Len(d) |-> d[CHOOSE i \in 1..Len(d) : rank(i) = k - 1]]

\* Python's s[:n]
SliceTo(s, n) ==
  IF n >= 0 THEN SubSeq(s, 1, IF n < Len(s) THEN n ELSE Len(s))
  ELSE SubSeq(s, 1, IF Len(s) + n > 0 THEN Len(s) + n ELSE 0)

\* the first entries of the dictionary, whatever their age
OldestInserted(target) ==
  IF Len(target) <= _CACHE_MAX THEN <<>>
  ELSE SliceTo(target, Len(target) - _CACHE_MAX)

\* the entries Job._cache_prune drops
Oldest(target) ==
  IF Len(target) <= _CACHE_MAX THEN <<>>
  ELSE SliceTo(SortedByAt(target), Len(target) - _CACHE_MAX)

\* Job._cache_prune
_cache_prune(target) ==
  LET oldest == Oldest(target)
  IN  SelectSeq(target, LAMBDA e : \A i \in 1..Len(oldest) : oldest[i].key # e.key)

\* an entry that never expires
FreshForever(hit, time) == IF hit # None THEN Some(hit[1].value) ELSE None

\* an entry counted as fresh at the full TTL
FreshAtTTL(hit, time) ==
  IF hit # None /\ time - hit[1].at <= _CACHE_TTL THEN Some(hit[1].value) ELSE None

\* `if hit and now - hit[0] < Job._CACHE_TTL: return hit[1]`, else None
Fresh(hit, time) ==
  IF hit # None /\ time - hit[1].at < _CACHE_TTL THEN Some(hit[1].value) ELSE None

\* Job._cache_get_count / Job._cache_get_search: Some(value) or None
_cache_get(target, key, time) == Fresh(DictGet(target, key), time)

\* Job._cache_set_count / Job._cache_set_search
_cache_set(target, key, time, value) == _cache_prune(DictSet(target, key, time, value))

\* the cache key of Job.count
CountKey(title, country) ==
  <<Lower(Strip(OrEmpty(title))), Lower(Strip(OrEmpty(country)))>>

\* the cache key of Job.search
SearchKey(title, country, limit, offset) ==
  <<Lower(Strip(OrEmpty(title))), Lower(Strip(OrEmpty(country))), limit, offset>>

\* ------------------------------------------------------------------ request parsing

\* characters `\w` matches
IsWordChar(c) ==
  \/ \E j \in 1..26 : LowerLetters[j] = c \/ UpperLetters[j] = c
  \/ c \in Range(Digits) \cup {"_", "U+00C3", "U+00E3"}

\* whether `\b` matches between the characters p and p + 1 of t
Boundary(t, p) ==
  (p >= 1 /\ p <= Len(t) /\ IsWordChar(t[p]))
    # (p + 1 >= 1 /\ p + 1 <= Len(t) /\ IsWordChar(t[p + 1]))

\* re.search(rf"\b{re.escape(token)}\b", t)
WordIn(token, t) ==
  \E i \in 0..(Len(t) - Len(token)) :
    /\ SubSeq(t, i + 1, i + Len(token)) = token
    /\ Boundary(t, i)
    /\ Boundary(t, i + Len(token))

\* normalize_country for the trimmed, lowercased text t of q
NormCountry(q, t) ==
  IF \E i \in 1..Len(COUNTRY_NORM) : COUNTRY_NORM[i][1] = t
    THEN COUNTRY_NORM[CHOOSE i \in 1..Len(COUNTRY_NORM) : COUNTRY_NORM[i][1] = t][2]
  ELSE IF Len(t) = 2 /\ IsAlpha(t) THEN Upper(t)
  ELSE IF \E i \in 1..Len(COUNTRY_NORM) : WordIn(COUNTRY_NORM[i][1], t)
    THEN COUNTRY_NORM[CHOOSE i \in 1..Len(COUNTRY_NORM) :
           /\ WordIn(COUNTRY_NORM[i][1], t)
           /\ \A j \in 1..(i - 1) : ~WordIn(COUNTRY_NORM[j][1], t)][2]
  ELSE Strip(q)

\* normalize_country
normalize_country(q) == IF q = <<>> THEN <<>> ELSE NormCountry(q, Lower(Strip(q)))

\* the dict TITLE_SYNONYMS in insertion order: <<key, value>>
TITLE_SYNONYMS ==
  << <<<<"s","w","e">>, <<"s","o","f","t","w","a","r","e"," ","e","n","g","i","n","e","e","r">>>>,
     <<<<"s","o","f","t","w","a","r","e"," ","e","n","g">>, <<"s","o","f","t","w","a","r","e"," ","e","n","g","i","n","e","e","r">>>>,
     <<<<"s","w"," ","e","n","g">>, <<"s","o","f","t","w","a","r","e"," ","e","n","g","i","n","e","e","r">>>>,
     <<<<"f","r","o","n","t","e","n","d">>, <<"f","r","o","n","t"," ","e","n","d">>>>,
     <<<<"f","r","o","n","t","-","e","n","d">>, <<"f","r","o","n","t"," ","e","n","d">>>>,
     <<<<"b","a","c","k","e","n","d">>, <<"b","a","c","k"," ","e","n","d">>>>,
     <<<<"b","a","c","k","-","e","n","d">>, <<"b","a","c","k"," ","e","n","d">>>>,
     <<<<"f","u","l","l","s","t","a","c","k">>, <<"f","u","l","l"," ","s","t","a","c","k">>>>,
     <<<<"f","u","l","l","-","s","t","a","c","k">>, <<"f","u","l","l"," ","s","t","a","c","k">>>>,
     <<<<"p","m">>, <<"p","r","o","d","u","c","t"," ","m","a","n","a","g","e","r">>>>,
     <<<<"p","r","o","d"," ","m","g","r">>, <<"p","r","o","d","u","c","t"," ","m","a","n","a","g","e","r">>>>,
     <<<<"p","r","o","d","u","c","t"," ","o","w","n","e","r">>, <<"p","r","o","d","u","c","t"," ","m","a","n","a","g","e","r">>>>,
     <<<<"d","s">>, <<"d","a","t","a"," ","s","c","i","e","n","t","i","s","t">>>>,
     <<<<"m","l">>, <<"m","a","c","h","i","n","e"," ","l","e","a","r","n","i","n","g">>>>,
     <<<<"m","l","e">>, <<"m","a","c","h","i","n","e"," ","l","e","a","r","n","i","n","g"," ","e","n","g","i","n","e","e","r">>>>,
     <<<<"s","r","e">>, <<"s","i","t","e"," ","r","e","l","i","a","b","i","l","i","t","y"," ","e","n","g","i","n","e","e","r">>>>,
     <<<<"d","e","v","o","p","s">>, <<"d","e","v","o","p","s">>>>,
     <<<<"s","e","c"," ","e","n","g">>, <<"s","e","c","u","r","i","t","y"," ","e","n","g","i","n","e","e","r">>>>,
     <<<<"i","n","f","o","s","e","c">>, <<"s","e","c","u","r","i","t","y">>>>,
     <<<<"p","r","o","g","r","a","m","m","e","r">>, <<"d","e","v","e","l","o","p","e","r">>>>,
     <<<<"c","o","d","e","r">>, <<"d","e","v","e","l","o","p","e","r">>>> >>

\* str.replace(old, new): the occurrences of old from left to right, without
\* overlap
RECURSIVE Replace(_, _, _)
Replace(s, old, new) ==
  IF Len(s) < Len(old) THEN s
  ELSE IF SubSeq(s, 1, Len(old)) = old
    THEN new \o Replace(SubSeq(s, Len(old) + 1, Len(s)), old, new)
  ELSE <<s[1]>> \o Replace(Tail(s), old, new)

\* `for k, v in TITLE_SYNONYMS.items(): if k in s: s = s.replace(k, v)`,
\* from entry i on
RECURSIVE Synonyms(_, _)
Synonyms(s, i) ==
  IF i > Len(TITLE_SYNONYMS) THEN s
  ELSE Synonyms(Replace(s, TITLE_SYNONYMS[i][1], TITLE_SYNONYMS[i][2]), i + 1)

\* re.sub(r"[^\w\s\-\/]", " ", s)
Punctuation(s) ==
  [i \in 1..Len(s) |->
     IF IsWordChar(s[i]) \/ IsSpace(s[i]) \/ s[i] \in {"-", "/"} THEN s[i] ELSE " "]

\* re.sub(r"\s+", " ", s).strip()
Collapse(s) == JoinSpace(Split(s))

\* normalize_title
normalize_title(q) ==
  IF q = <<>> THEN <<>> ELSE Collapse(Punctuation(Synonyms(Lower(q), 1)))

\* `\d`
IsDigit(c) == c \in Range(Digits)

\* `[\d,.\s]*` after position j, greedy: the position of its last character
RECURSIVE RunEnd(_, _)
RunEnd(s, j) ==
  IF j < Len(s) /\ (IsDigit(s[j + 1]) \/ s[j + 1] \in {",", "."} \/ IsSpace(s[j + 1]))
    THEN RunEnd(s, j + 1) ELSE j

\* `\s*` after position j: the position of its last character
RECURSIVE SkipSpace(_, _)
SkipSpace(s, j) == IF j < Len(s) /\ IsSpace(s[j + 1]) THEN SkipSpace(s, j + 1) ELSE j

\* `(?i)\d[\d,.\s]*k?` matched at position i: the position of its last
\* character, 0 when there is no digit at i
NumberEnd(s, i) ==
  IF i < 1 \/ i > Len(s) \/ ~IsDigit(s[i]) THEN 0
  ELSE IF RunEnd(s, i) < Len(s) /\ s[RunEnd(s, i) + 1] \in {"k", "K"}
    THEN RunEnd(s, i) + 1
  ELSE RunEnd(s, i)

\* a match: the span removed from the text and the spans of its groups
Match(first, last, g1, g2) == [first |-> first, last |-> last, g1 |-> g1, g2 |-> g2]

\* the range pattern matched at position i, given the end of its first
\* number, the position of the dash and the start of the second number
RangeFrom(s, i, e1, dash, n2) ==
  IF e1 > 0 /\ dash <= Len(s) /\ s[dash] \in {"-", "U+2013"} /\ NumberEnd(s, n2) > 0
    THEN Some(Match(i, NumberEnd(s, n2), <<i, e1>>, <<n2, NumberEnd(s, n2)>>))
    ELSE None

\* `(\d[\d,.\s]*k?)\s*[-–]\s*(\d[\d,.\s]*k?)` at position i
RangeAt(s, i) ==
  RangeFrom(s, i, NumberEnd(s, i), SkipSpace(s, NumberEnd(s, i)) + 1,
            SkipSpace(s, SkipSpace(s, NumberEnd(s, i)) + 1) + 1)

\* a bound pattern matched at position i, given the start of its number
BoundFrom(s, i, n) ==
  IF NumberEnd(s, n) > 0
    THEN Some(Match(i, NumberEnd(s, n), <<n, NumberEnd(s, n)>>, <<>>))
    ELSE None

\* the position after `\s*=?` that follows position a
AfterEquals(s, a) == IF a < Len(s) /\ s[a + 1] = "=" THEN a + 1 ELSE a

\* `>\s*=?\s*(\d[\d,.\s]*k?)` or `<\s*=?\s*(\d[\d,.\s]*k?)` at position i
BoundAt(s, i, sign) ==
  IF s[i] # sign THEN None
  ELSE BoundFrom(s, i, SkipSpace(s, AfterEquals(s, SkipSpace(s, i))) + 1)

\* `(\d[\d,.\s]*k?)` at position i
SingleAt(s, i) ==
  IF NumberEnd(s, i) > 0
    THEN Some(Match(i, NumberEnd(s, i), <<i, NumberEnd(s, i)>>, <<>>))
    ELSE None

\* re.search: the match at the leftmost position that has one. at[i] is the
\* match at position i or None
Leftmost(at) ==
  IF \A i \in DOMAIN at : at[i] = None THEN None
  ELSE at[CHOOSE i \in DOMAIN at : at[i] # None /\ \A j \in 1..(i - 1) : at[j] = None]

range_match(s) == Leftmost([i \in 1..Len(s) |-> RangeAt(s, i)])
greater_match(s) == Leftmost([i \in 1..Len(s) |-> BoundAt(s, i, ">")])
less_match(s) == Leftmost([i \in 1..Len(s) |-> BoundAt(s, i, "<")])
single_match(s) == Leftmost([i \in 1..Len(s) |-> SingleAt(s, i)])

\* str.rstrip("k")
RECURSIVE RStripK(_)
RStripK(s) ==
  IF s # <<>> /\ s[Len(s)] = "k" THEN RStripK(SubSeq(s, 1, Len(s) - 1)) ELSE s

\* parse_money_numbers on one matched number: the number it yields, if any
MoneyOf(clean, digits) ==
  IF digits # <<>> /\ \A i \in 1..Len(digits) : IsDigit(digits[i])
    THEN Some(DigitsValue(digits)
                * (IF clean # <<>> /\ clean[Len(clean)] = "k" THEN 1000 ELSE 1))
    ELSE None

MoneyClean(clean) == MoneyOf(clean, SelectSeq(RStripK(clean), LAMBDA c : c # "."))

\* parse_money_numbers(match.group(n)), its first (and only) number
parse_money_numbers(raw) ==
  MoneyClean(SelectSeq(Lower(raw), LAMBDA c : c \notin {",", " "}))

Group(s, g) == SubSeq(s, g[1], g[2])

\* (s[:match.start()] + s[match.end():]).strip()
Cleaned(s, m) == Strip(SubSeq(s, 1, m.first - 1) \o SubSeq(s, m.last + 1, Len(s)))

\* parse_salary_query on the stripped text, given the four searches
SalaryParsed(s, rm, gm, lm, sm) ==
  IF rm # None
    THEN <<Cleaned(s, rm[1]), parse_money_numbers(Group(s, rm[1].g1)),
           parse_money_numbers(Group(s, rm[1].g2))>>
  ELSE IF gm # None
    THEN <<Cleaned(s, gm[1]), parse_money_numbers(Group(s, gm[1].g1)), None>>
  ELSE IF lm # None
    THEN <<Cleaned(s, lm[1]), None, parse_money_numbers(Group(s, lm[1].g1))>>
  ELSE IF sm # None
    THEN <<Cleaned(s, sm[1]), parse_money_numbers(Group(s, sm[1].g1)), None>>
  ELSE <<s, None, None>>

SalaryQuery(s) ==
  SalaryParsed(s, range_match(s), greater_match(s), less_match(s), single_match(s))

\* parse_salary_query: <<cleaned, floor, ceiling>>
parse_salary_query(q) ==
  IF q = <<>> THEN <<<<>>, None, None>> ELSE SalaryQuery(Strip(q))

\* `x or None` for a string
OrNone(s) == IF s = <<>> THEN None ELSE Some(s)

\* _resolve_pagination() of a request without page and per_page: page 1 and
\* the default per_page
DefaultPerPage == 12

\* _display_per_page
_display_per_page(per_page) ==
  IF per_page < 5 THEN per_page ELSE IF per_page > 10 THEN per_page ELSE 10

\* the sample size of api_jobs_summary and the limit of api_salary_insights
max_samples == 1000
InsightsLimit == 100

\* len(_get_demo_jobs())
DemoJobs == 6

\* BLACKLIST_LINKS
BLACKLIST_LINKS == {<<"h","t","t","p","s",":","/","/","e","x","a","m","p","l","e",".","c","o","m","/","j","o","b","/","1">>}

\* index: `link = row.get("link"); if link in BLACKLIST_LINKS: link = None`,
\* the "link" of each item
IndexLinks(rows) ==
  [i \in 1..Len(rows) |->
     IF rows[i].link \in BLACKLIST_LINKS THEN None ELSE Some(rows[i].link)]

\* api_jobs: the same test, and the item carries `link or ""`
JobsLinks(rows) ==
  [i \in 1..Len(rows) |->
     IF rows[i].link \in BLACKLIST_LINKS THEN Some(<<>>) ELSE Some(rows[i].link)]

\* api_salary_insights: the item carries row.get("link")
InsightsLinks(rows) == [i \in 1..Len(rows) |-> Some(rows[i].link)]

\* the limit of the related-jobs search of job_detail
RelatedLimit == 5

\* job_detail: title, and the first word the related-jobs search is made with
DetailTitle(row) == Collapse(Strip(PyOr(row.job_title, <<"(","U","n","t","i","t","l","e","d",")">>)))

FirstWord(title) == IF Split(title) = <<>> THEN <<>> ELSE Split(title)[1]

RelatedArgs(row) ==
  <<OrNone(normalize_title(FirstWord(DetailTitle(row)))), None, RelatedLimit, 0>>

\* Job.get_by_id: the row of the job with this id, or None
get_by_id(table, job_id) ==
  IF ParseInt(Strip(job_id)) = None
       \/ ~\E i \in 1..Len(table) : table[i].id = ParseInt(Strip(job_id))[1]
    THEN None
    ELSE Some(table[CHOOSE i \in 1..Len(table) : table[i].id = ParseInt(Strip(job_id))[1]])

\* ------------------------------------------------------------------ salary estimate

\* Amounts are kept in hundredths, which holds every value the estimate
\* computes from a whole median without rounding: 0.8 m, 1.2 m, 0.05 m, 0.10 m.
Hundredths == 100

Max(a, b) == IF a >= b THEN a ELSE b

\* int(x) for an amount x in hundredths: the fraction is cut off, towards 0
Whole(x) == IF x >= 0 THEN x \div Hundredths ELSE -((-x) \div Hundredths)

\* round(n / d), ties to the even neighbour, for d > 0
RoundHalfEven(n, d) ==
  IF 2 * (n % d) < d THEN n \div d
  ELSE IF 2 * (n % d) > d THEN n \div d + 1
  ELSE IF (n \div d) % 2 = 0 THEN n \div d
  ELSE n \div d + 1

\* str(n) for an integer
RECURSIVE Str(_)
Str(n) ==
  IF n < 0 THEN <<"-">> \o Str(-n)
  ELSE IF n < 10 THEN <<Digits[n + 1]>>
  ELSE Str(n \div 10) \o <<Digits[(n % 10) + 1]>>

\* `if k <= 0: k = max(1, k)` of the 10k grids
Grid(k_grid, k) == IF k_grid <= 0 THEN Max(1, k) ELSE k_grid

\* v / 1_000_000.0 is a double: at a tie of the one-decimal rounding
\* (n tenths and a half) the double nearest to the quotient lies above the
\* tie for these n, below it for those, and is the tie itself for the
\* other n from 10 to 49
QuotientAbove == {10, 13, 15, 18, 23, 24, 28, 29, 33, 34, 38, 39, 41, 44, 46, 49}

QuotientBelow == {11, 14, 16, 19, 20, 21, 25, 26, 30, 31, 35, 36, 40, 43, 45, 48}

\* round(v / 1_000_000.0, 1) in tenths, for an amount in hundredths
RoundTenth(v) ==
  LET n == v \div (100000 * Hundredths)
      tie == 2 * (v % (100000 * Hundredths)) = 100000 * Hundredths
  IN  IF tie /\ n \in QuotientAbove THEN n + 1
      ELSE IF tie /\ n \in QuotientBelow THEN n
      ELSE RoundHalfEven(v, 100000 * Hundredths)

\* _compact_salary_number for an amount in hundredths
_compact_salary_number(v) ==
  IF v < 1000 * Hundredths THEN Str(RoundHalfEven(v, Hundredths))
  ELSE IF RoundHalfEven(v, 1000 * Hundredths) < 1000
    THEN Str(Grid(RoundHalfEven(RoundHalfEven(v, 1000 * Hundredths), 10) * 10,
                  RoundHalfEven(v, 1000 * Hundredths))) \o <<"k">>
  ELSE IF RoundTenth(v) % 10 = 0
    THEN Str(RoundTenth(v) \div 10) \o <<"M">>
  ELSE Str(RoundTenth(v) \div 10) \o <<".">> \o Str(RoundTenth(v) % 10) \o <<"M">>

\* _round_floor_10k of salary_range_around, for an amount in hundredths
_round_floor_10k(x) ==
  IF x < 1000 * Hundredths THEN Whole(x)
  ELSE Grid(((x \div (1000 * Hundredths)) \div 10) * 10, x \div (1000 * Hundredths)) * 1000

\* _round_ceil_10k of salary_range_around, for an amount in hundredths
_round_ceil_10k(x) ==
  IF x < 1000 * Hundredths THEN Whole(x)
  ELSE Grid(((((x + 999 * Hundredths) \div (1000 * Hundredths)) + 9) \div 10) * 10,
            (x + 999 * Hundredths) \div (1000 * Hundredths)) * 1000

RangeOf(low_r, high_r) ==
  <<low_r, high_r, _compact_salary_number(low_r * Hundredths),
    _compact_salary_number(high_r * Hundredths)>>

\* salary_range_around(median, pct=0.2) for a whole median:
\* <<low, high, low display, high display>>
salary_range_around(median) ==
  RangeOf(_round_floor_10k(median * 80), _round_ceil_10k(median * 120))

TITLE_BUCKET2_KEYWORDS == <<<<"p","r","i","n","c","i","p","a","l">>, <<"s","t","a","f","f">>, <<"l","e","a","d"," ">>, <<"l","e","a","d","-">>, <<"h","e","a","d"," ","o","f">>, <<"d","i","r","e","c","t","o","r">>>>

TITLE_BUCKET1_KEYWORDS == <<<<"s","e","n","i","o","r">>, <<"s","r"," ">>, <<"s","r",".">>, <<"e","x","p","e","r","t">>>>

AnyKeyword(title_lc, keywords) ==
  \E i \in 1..Len(keywords) : Contains(title_lc, keywords[i])

\* a factor that tries the bucket-1 keywords first
uplift_bucket1_first(title) ==
  IF AnyKeyword(Lower(title), TITLE_BUCKET1_KEYWORDS) THEN 105
  ELSE IF AnyKeyword(Lower(title), TITLE_BUCKET2_KEYWORDS) THEN 110
  ELSE 100

\* the uplift factor of a title, in hundredths: 1.10, 1.05 or 1.0
UpliftFactor(title) ==
  IF AnyKeyword(Lower(title), TITLE_BUCKET2_KEYWORDS) THEN 110
  ELSE IF AnyKeyword(Lower(title), TITLE_BUCKET1_KEYWORDS) THEN 105
  ELSE 100

\* f"{low_s}–{high_s}"
Display(low_s, high_s) == low_s \o <<"U+2013">> \o high_s

\* the estimate with an uplift: the bounds of the base range plus
\* median * (factor - 1.0), in hundredths
Uplifted(adj_low, adj_high) ==
  [range |-> Some(<<Whole(adj_low), Whole(adj_high)>>),
   display |-> Some(Display(_compact_salary_number(adj_low),
                            _compact_salary_number(adj_high)))]

\* the estimate of index and job_detail from the base range
Estimated(median, factor, base_rng) ==
  IF factor > 100
    THEN Uplifted(base_rng[1] * Hundredths + median * (factor - 100),
                  base_rng[2] * Hundredths + median * (factor - 100))
    ELSE [range |-> Some(<<base_rng[1], base_rng[2]>>),
          display |-> Some(Display(base_rng[3], base_rng[4]))]

\* the estimation step of index and of job_detail for the record that
\* get_salary_for_location returned (None, or <<median, currency>>)
Estimate(rec, title) ==
  IF rec = None THEN [range |-> None, display |-> None]
  ELSE Estimated(rec[1][1], UpliftFactor(title), salary_range_around(rec[1][1]))

\* a filter that drops the row whose basis equals the floor
kept_above(sal_floor, basis) == basis # None /\ basis[1] > sal_floor

\* the salary post-filter of index: whether the row stays on the page
KeptOn(sal_floor, basis) == basis # None /\ basis[1] >= sal_floor

\* `basis = est_high if est_high is not None else median`
Basis(rec, range_compact) ==
  IF range_compact # None THEN Some(range_compact[1][2])
  ELSE IF rec # None THEN Some(rec[1][1])
  ELSE None

\* a post-filter applied for every floor
kept_any_floor(sal_floor, rec, range_compact) ==
  IF sal_floor # None /\ sal_floor[1] # 0
    THEN KeptOn(sal_floor[1], Basis(rec, range_compact))
    ELSE TRUE

Kept(sal_floor, rec, range_compact) ==
  IF sal_floor # None /\ sal_floor[1] # 0 /\ sal_floor[1] >= 100000
    THEN KeptOn(sal_floor[1], Basis(rec, range_compact))
    ELSE TRUE

\* the salary fields of the item index builds for a row, and whether the
\* row is appended to the page
IndexItem(sal_floor, rec, title, est) ==
  [title |-> title,
   median_salary |-> IF rec = None THEN None ELSE Some(rec[1][1]),
   median_salary_currency |-> IF rec = None THEN None ELSE Some(rec[1][2]),
   median_salary_compact |->
     IF rec = None THEN None ELSE Some(_compact_salary_number(rec[1][1] * Hundredths)),
   estimated_salary_range_compact |-> est.display,
   estimated_salary_range_numeric |-> est.range,
   salary_uplift_factor |->
     IF rec # None /\ UpliftFactor(title) > 100 THEN Some(UpliftFactor(title)) ELSE None,
   kept |-> Kept(sal_floor, rec, est.range)]

index_item(sal_floor, rec, row) ==
  IndexItem(sal_floor, rec, DetailTitle(row), Estimate(rec, DetailTitle(row)))

\* the salary fields job_detail renders for a row
DetailSalary(est) ==
  [estimated_display |-> est.display,
   salary_min |-> IF est.range = None THEN None ELSE Some(est.range[1][1]),
   salary_max |-> IF est.range = None THEN None ELSE Some(est.range[1][2])]

detail_salary(rec, row) == DetailSalary(Estimate(rec, DetailTitle(row)))

\* ------------------------------------------------------------------ salary table

\* re.split(r"[,;/\\-]|\\(|\\)", loc): the text between the characters
\* , ; / \ and - (a parenthesis does not split: the second alternative is a
\* backslash followed by a group)
RECURSIVE SplitPieces(_, _)
SplitPieces(s, piece) ==
  IF s = <<>> THEN <<piece>>
  ELSE IF s[1] \in {",", ";", "/", "\\", "-"}
    THEN <<piece>> \o SplitPieces(Tail(s), <<>>)
  ELSE SplitPieces(Tail(s), Append(piece, s[1]))

\* pieces of get_salary_for_location: stripped, without the empty ones
StripAll(list) == [i \in 1..Len(list) |-> Strip(list[i])]

Pieces(loc) == SelectSeq(StripAll(SplitPieces(loc, <<>>)), LAMBDA p : p # <<>>)

\* candidates: the pieces, then the full string
Candidates(loc) == Append(Pieces(loc), loc)

\* one SELECT of get_salary_for_location: an exact comparison of a column
\* with a candidate, or the LIKE search (which declares no ESCAPE)
SalaryQuerySpec(kind, column, value) == [kind |-> kind, column |-> column, value |-> value]

ExactQueries(column, candidates) ==
  [i \in 1..Len(candidates) |-> SalaryQuerySpec("exact", column, candidates[i])]

\* the SELECTs in the order the function issues them
SalaryQueries(loc) ==
  ExactQueries("city", Candidates(loc))
    \o ExactQueries("region", Candidates(loc))
    \o ExactQueries("country", Candidates(loc))
    \o <<SalaryQuerySpec("like", "", <<"%">> \o Lower(loc) \o <<"%">>)>>

\* the rows a SELECT ... AND median_salary IS NOT NULL can return
SalaryHits(table, query) ==
  {row \in table :
     /\ row.median_salary # None
     /\ IF query.kind = "exact" THEN Lower(row[query.column]) = Lower(query.value)
        ELSE \/ Like(Lower(row.location), query.value)
             \/ Like(Lower(row.city), query.value)
             \/ Like(Lower(row.region), query.value)}

\* float(row[0]), (row[1] or None)
SalaryRecord(row) ==
  <<row.median_salary[1], IF row.currency = <<>> THEN None ELSE Some(row.currency)>>

\* the values the function can return once it is about to issue SELECT i:
\* LIMIT 1 with no ORDER BY hands back any of the rows that match, and the
\* SELECT number `failing` (0 for none) raises
RECURSIVE RunSalaryQueries(_, _, _, _)
RunSalaryQueries(table, queries, i, failing) ==
  IF i > Len(queries) \/ i = failing THEN {None}
  ELSE IF SalaryHits(table, queries[i]) # {}
    THEN {Some(SalaryRecord(row)) : row \in SalaryHits(table, queries[i])}
  ELSE RunSalaryQueries(table, queries, i + 1, failing)

StrippedLocation(table, loc, failing) ==
  IF loc = <<>> THEN {None} ELSE RunSalaryQueries(table, SalaryQueries(loc), 1, failing)

\* get_salary_for_location: the values it can return
get_salary_for_location(table, location, failing) ==
  IF location = <<>> THEN {None} ELSE StrippedLocation(table, Strip(location), failing)

\* ------------------------------------------------------------------ inputs

\* a submitted row with no key set
EmptyRow ==
  [job_title |-> <<>>, title |-> <<>>, job_title_norm |-> <<>>,
   job_description |-> <<>>, description |-> <<>>, location |-> <<>>,
   job_location |-> <<>>, city |-> <<>>, region |-> <<>>, country |-> <<>>,
   country_code |-> <<>>, link |-> <<>>, job_link |-> <<>>, url |-> <<>>,
   date |-> <<>>, job_date |-> <<>>, date_posted |-> <<>>, posted_at |-> <<>>]

RowA ==
  [EmptyRow EXCEPT !.job_title = <<"D","e","v">>, !.location = <<"B","e","r","l","i","n">>,
                   !.country = <<"D","E">>, !.link = <<"a">>, !.date = <<"2">>]

RowB ==
  [EmptyRow EXCEPT !.title = <<"Q","A">>, !.job_location = <<"P","a","r","i","s">>,
                   !.country_code = <<"F","R">>, !.url = <<"b">>, !.job_date = <<"1">>]

\* a job without a link
RowN ==
  [EmptyRow EXCEPT !.job_title = <<"U","X">>, !.location = <<"R","e","m","o","t","e">>, !.date = <<"4">>]

\* carries the link of RowA
RowC ==
  [EmptyRow EXCEPT !.job_title = <<"O","p","s">>, !.job_link = <<"a">>, !.date = <<"3">>]

\* the batches handed to Job.insert_many
Batches == {<<RowA>>, <<RowC, RowB>>}

\* the rows the requests find once they are imported
RouteBatch == <<RowA, RowN>>

\* a job whose link is blacklisted
RowX ==
  [EmptyRow EXCEPT !.job_title = <<"S","r"," ","D","e","v">>, !.location = <<"B","e","r","l","i","n">>,
                   !.country = <<"D","E">>, !.link = <<"h","t","t","p","s",":","/","/","e","x","a","m","p","l","e",".","c","o","m","/","j","o","b","/","1">>,
                   !.date = <<"5">>]

\* the rows behind the pages that show links
LinkBatch == <<RowX, RowN>>

\* the ids asked of /jobs/<id>: two stored jobs and one that is not stored
DetailIds == {<<"1">>, <<"2">>, <<"9">>}

\* (title, country) handed to Job.count: two spellings of one key among them
CountInputs ==
  {<<None, None>>, <<Some(<<" ","D","e","v">>), None>>, <<Some(<<"d","e","v">>), None>>,
   <<None, Some(<<"E","U">>)>>}

\* (title, country, limit, offset) handed to Job.search
SearchInputs ==
  {<<None, None, 2, 0>>, <<None, Some(<<"E","U">>), 2, 0>>, <<None, Some(<<" ","e","u">>), 2, 0>>,
   <<None, None, 1, 1>>}

\* the calls several threads make at once: four keys of Job.search, so that a
\* full cache can receive two more, and one of Job.count
ConcSearches ==
  {<<None, None, 1, 0>>, <<None, None, 1, 1>>, <<None, None, 2, 0>>, <<None, None, 2, 1>>}
ConcCounts == {<<None, None>>}

\* the country parameter of the requests: none, a code, an alias of the code
RouteCountries == {<<>>, <<"D","E">>, <<"G","e","r","m","a","n","y">>}

\* the addresses posted to /subscribe: two spellings of one address, another
\* address, and text that is no address
Emails == {<<"a","@","x",".","y">>, <<" ","a","@","X",".","Y">>, <<"B","@","x",".","y">>, <<"a","x",".","y">>}

OneEmail == {<<"a","@","x",".","y">>}

\* the job_id and next fields posted to /subscribe
SubscribeJobIds == {<<"1">>, <<" ","2">>, <<"x">>}
NextUrls == {<<>>, <<"/","n">>, <<"/","/","e">>, <<"h","t","t","p",":","/","/","h">>}

\* the payloads posted to /events/apply
ApplyPayloads ==
  {[status |-> <<"m","o","d","a","l","_","o","p","e","n">>, job_id |-> <<"1">>, job_title |-> <<"D","e","v">>,
    job_summary |-> <<"s","u","m">>, source |-> <<"w","e","b">>]}

\* the lookups the requests make
RouteQueries == {None, Some(<<"D","E">>)}
RouteCounts == {<<None, q>> : q \in RouteQueries}
RouteSearches ==
  {<<None, q, n, 0>> : q \in RouteQueries, n \in {DefaultPerPage, max_samples, InsightsLimit}}

\* job ids handed to Job.get_link
JobIds == {None, Some(<<"1">>), Some(<<" ","2"," ">>), Some(<<"x">>)}

\* seconds the clock advances in one step, and the number of such steps
TickStep == 15
MaxTicks == 2

\* ------------------------------------------------------------------ state

VARIABLES
  jobs,           \* the jobs table, rows in insertion order
  _cache_count,   \* Job._cache_count
  _cache_search,  \* Job._cache_search
  now,            \* time.time()
  pend,           \* per thread: the Job.count / Job.search call in progress
  ev,             \* what the latest step did, as its caller observes it
  stored,         \* history: per cache and key, the latest write (time, value),
                  \* the time the value was read from the jobs table, whether
                  \* the entry was pruned since
  subscribers,    \* the subscribers table: the stored addresses, in order
  log_events,     \* the log_events table, rows in insertion order
  resp            \* the response to the latest request

vars ==
  <<jobs, _cache_count, _cache_search, now, pend, ev, stored,
    subscribers, log_events, resp>>

NThreads == 2
Threads == 1..NThreads

Idle ==
  [pc |-> "idle", op |-> "", args |-> <<>>, key |-> <<>>, value |-> None,
   readAt |-> 0, snap |-> <<>>, oldest |-> <<>>]

NoEvent ==
  [kind |-> "init", op |-> "", args |-> <<>>, key |-> <<>>, hit |-> FALSE,
   dbq |-> FALSE, raised |-> FALSE, done |-> FALSE, result |-> None, t |-> 0]

\* the response of a request, as the client reads it
NoResponse ==
  [route |-> "", code |-> 0, asked |-> FALSE, failed |-> FALSE, total |-> 0,
   rows |-> <<>>, demo |-> FALSE, status |-> "", error |-> "", redirect |-> None,
   location |-> None, flash |-> "", request |-> <<>>, links |-> <<>>]

Target(op) == IF op = "count" THEN _cache_count ELSE _cache_search

\* a key that leaves the title out
KeyOfCountry(op, args) ==
  IF op = "count" THEN CountKey(None, args[2])
  ELSE SearchKey(None, args[2], args[3], args[4])

\* the cache key of a call
KeyOf(op, args) ==
  IF op = "count" THEN CountKey(args[1], args[2])
  ELSE SearchKey(args[1], args[2], args[3], args[4])

\* the statement Job.count / Job.search executes against the jobs table
Query(table, op, args) ==
  IF op = "count" THEN SelectCount(table, args[1], args[2])
  ELSE SelectRows(table, args[1], args[2], args[3], args[4])

\* every table a sequence of Job.insert_many calls over Batches can build
Tables ==
  LET parts == UNION {{SubSeq(rows, 1, n) : n \in 0..Len(rows)} : rows \in Batches}
      grow(S) == S \cup {insert_many(tb, rows) : tb \in S, rows \in parts}
  IN  grow(grow(grow({<<>>})))

\* the calls of the model: <<op, args>>
Calls ==
  ({"count"} \X (CountInputs \cup ConcCounts))
    \cup ({"search"} \X (SearchInputs \cup ConcSearches))

\* the tables and lookups of the requests
RouteTables ==
  {<<>>, insert_many(<<>>, RouteBatch), insert_many(<<>>, <<RowA, RowB>>)}

RouteCalls == ({"count"} \X RouteCounts) \cup ({"search"} \X RouteSearches)

\* the table and lookups of the pages that show links
LinkTable == insert_many(<<>>, LinkBatch)

LinkCalls ==
  RouteCalls \cup {<<"search", RelatedArgs(LinkTable[i])>> : i \in 1..Len(LinkTable)}

\* Query for every table and call of the model, tabulated once (@@ makes the
\* function an explicit table)
Results ==
  [x \in (Tables \X Calls) \cup (RouteTables \X RouteCalls)
          \cup ({LinkTable} \X LinkCalls) |->
     Query(x[1], x[2][1], x[2][2])] @@ <<>>

HasKey(d, key) == \E i \in 1..Len(d) : d[i].key = key

\* the history after a write of `key` that left the cache as `target`
StoredIn(st, op, key, at, readAt, value, target) ==
  [st EXCEPT ![op] =
     {[h EXCEPT !.evicted = h.evicted \/ ~HasKey(target, h.key)] :
        h \in {g \in st[op] : g.key # key}
              \cup {[key |-> key, at |-> at, read |-> readAt, value |-> value,
                     evicted |-> FALSE]}}]

StoredAfter(op, key, at, readAt, value, target) ==
  StoredIn(stored, op, key, at, readAt, value, target)

\* what a caller observes of a call to Job.count / Job.search
CallEvent(t, op, args, key) ==
  [NoEvent EXCEPT !.kind = "call", !.op = op, !.args = args, !.key = key, !.t = t]

\* the cache after _cache_set_count / _cache_set_search left it as `target`
Stored(op, key, value, readAt, target) ==
  /\ _cache_count' = IF op = "count" THEN target ELSE _cache_count
  /\ _cache_search' = IF op = "search" THEN target ELSE _cache_search
  /\ stored' = StoredAfter(op, key, now, readAt, value, target)

\* a miss path that stores the value before the statement is known to
\* have run
miss_stored_first(op, key, value, call) ==
  \E fail \in BOOLEAN :
    /\ ev' = IF fail THEN [call EXCEPT !.raised = TRUE]
             ELSE [call EXCEPT !.dbq = TRUE, !.done = TRUE, !.result = Some(value)]
    /\ Stored(op, key, value, now, _cache_set(Target(op), key, now, value))

\* the miss path: get_db() or execute() may raise; otherwise the result is
\* stamped with the current time, stored, the cache pruned, and returned
Miss(op, key, value, call) ==
  \E fail \in BOOLEAN :
    IF fail
      THEN /\ ev' = [call EXCEPT !.raised = TRUE]
           /\ UNCHANGED <<_cache_count, _cache_search, stored>>
      ELSE /\ ev' = [call EXCEPT !.dbq = TRUE, !.done = TRUE, !.result = Some(value)]
           /\ Stored(op, key, value, now, _cache_set(Target(op), key, now, value))

\* a fresh cached value is returned without touching the jobs table
Answer(op, key, cached, value, call) ==
  IF cached # None
    THEN /\ ev' = [call EXCEPT !.hit = TRUE, !.done = TRUE, !.result = cached]
         /\ UNCHANGED <<_cache_count, _cache_search, stored>>
    ELSE Miss(op, key, value, call)

Lookup(t, op, args, key) ==
  Answer(op, key, _cache_get(Target(op), key, now),
         Results[<<jobs, <<op, args>>>>], CallEvent(t, op, args, key))

\* Job.count / Job.search as one step
Call(t, op, args) ==
  /\ pend[t].pc = "idle"
  /\ Lookup(t, op, args, KeyOf(op, args))
  /\ UNCHANGED <<jobs, now, pend, subscribers, log_events, resp>>

\* Job.count, the clock standing still during the call
count(t) == \E args \in CountInputs : Call(t, "count", args)

\* Job.search, the clock standing still during the call
search(t) == \E args \in SearchInputs : Call(t, "search", args)

\* the clock advances
Tick ==
  /\ now < MaxTicks * TickStep
  /\ now' = now + TickStep
  /\ ev' = [NoEvent EXCEPT !.kind = "tick"]
  /\ UNCHANGED <<jobs, _cache_count, _cache_search, pend, stored,
                 subscribers, log_events, resp>>

\* a populated jobs table that no step changes
InitCache ==
  /\ jobs = insert_many(<<>>, <<RowA, RowB>>)
  /\ _cache_count = <<>>
  /\ _cache_search = <<>>
  /\ now = 0
  /\ pend = [t \in Threads |-> Idle]
  /\ ev = NoEvent
  /\ stored = [count |-> {}, search |-> {}]
  /\ subscribers = <<>>
  /\ log_events = <<>>
  /\ resp = NoResponse

NextCache ==
  \/ count(1)
  \/ search(1)
  \/ Tick

\* one caller of Job.count and Job.search over an unchanged jobs table
SpecCache == InitCache /\ [][NextCache]_vars

\* ------------------------------------------------------------------ calls that take time

\* the calls made while the jobs table changes
SlowCounts == {<<None, None>>}
SlowSearches == {<<None, Some(<<"E","U">>), 2, 0>>, <<None, Some(<<" ","e","u">>), 2, 0>>}

\* the statement has run: its result waits to be stored
Fetched(t, op, args, key, value) ==
  pend' = [pend EXCEPT ![t] =
             [Idle EXCEPT !.pc = "fetched", !.op = op, !.args = args, !.key = key,
                          !.value = Some(value), !.readAt = now]]

\* Job.count / Job.search up to the end of the datastore read
Execute(t, cached, value, call) ==
  /\ IF cached # None
       THEN /\ ev' = [call EXCEPT !.hit = TRUE, !.done = TRUE, !.result = cached]
            /\ pend' = pend
       ELSE \E fail \in BOOLEAN :
              IF fail
                THEN /\ ev' = [call EXCEPT !.raised = TRUE]
                     /\ pend' = pend
                ELSE /\ ev' = [call EXCEPT !.dbq = TRUE]
                     /\ Fetched(t, call.op, call.args, call.key, value)
  /\ UNCHANGED <<jobs, _cache_count, _cache_search, now, stored,
                 subscribers, log_events, resp>>

Begin(t, op, args) ==
  /\ pend[t].pc = "idle"
  /\ Execute(t, _cache_get(Target(op), KeyOf(op, args), now),
             Results[<<jobs, <<op, args>>>>], CallEvent(t, op, args, KeyOf(op, args)))

\* Job.count: the cache lookup and, on a miss, the SELECT COUNT
count_execute(t) == \E args \in SlowCounts : Begin(t, "count", args)

\* Job.search: the cache lookup and, on a miss, the SELECT
search_execute(t) == \E args \in SlowSearches : Begin(t, "search", args)

ReturnEvent(p, t) ==
  [NoEvent EXCEPT !.kind = "return", !.op = p.op, !.args = p.args, !.key = p.key,
                  !.done = TRUE, !.result = p.value, !.t = t]

\* the rest of Job.count / Job.search: _cache_set_count / _cache_set_search
\* stamps the value with the time of the write and prunes; the value is returned
cache_set(t) ==
  /\ pend[t].pc = "fetched"
  /\ Stored(pend[t].op, pend[t].key, pend[t].value[1], pend[t].readAt,
            _cache_set(Target(pend[t].op), pend[t].key, now, pend[t].value[1]))
  /\ pend' = [pend EXCEPT ![t] = Idle]
  /\ ev' = ReturnEvent(pend[t], t)
  /\ UNCHANGED <<jobs, now, subscribers, log_events, resp>>

\* Job.insert_many: executemany stores the whole payload, or raises after a
\* part of it
InsertMany ==
  /\ pend[1].pc = "idle"
  /\ \E rows \in Batches : \E n \in 0..Len(rows) :
       /\ jobs' = insert_many(jobs, SubSeq(rows, 1, n))
       /\ ev' = [NoEvent EXCEPT !.kind = "insert_many", !.args = rows,
                                !.raised = (n < Len(rows)), !.done = (n = Len(rows))]
  /\ UNCHANGED <<_cache_count, _cache_search, now, pend, stored,
                 subscribers, log_events, resp>>

\* Job.get_link
GetLink ==
  /\ pend[1].pc = "idle"
  /\ \E job_id \in JobIds :
       ev' = [NoEvent EXCEPT !.kind = "get_link", !.args = <<job_id>>,
                             !.done = TRUE, !.result = get_link(jobs, job_id)]
  /\ UNCHANGED <<jobs, _cache_count, _cache_search, now, pend, stored,
                 subscribers, log_events, resp>>

Init ==
  /\ jobs = <<>>
  /\ _cache_count = <<>>
  /\ _cache_search = <<>>
  /\ now = 0
  /\ pend = [t \in Threads |-> Idle]
  /\ ev = NoEvent
  /\ stored = [count |-> {}, search |-> {}]
  /\ subscribers = <<>>
  /\ log_events = <<>>
  /\ resp = NoResponse

\* one caller: imports, counts, searches and link lookups, one call at a time,
\* the clock advancing between and during the calls
Next ==
  \/ count_execute(1)
  \/ search_execute(1)
  \/ cache_set(1)
  \/ InsertMany
  \/ GetLink
  \/ Tick

Spec == Init /\ [][Next]_vars

\* ------------------------------------------------------------------ concurrent calls

\* a step inside _cache_set_count / _cache_set_search
StepEvent(t) == [NoEvent EXCEPT !.kind = "step", !.t = t]

\* the history once `target` lost the entries that were popped
Evicted(op, target) ==
  [stored EXCEPT ![op] =
     {[h EXCEPT !.evicted = h.evicted \/ ~HasKey(target, h.key)] : h \in stored[op]}]

\* the cache of `op` becomes `target`
Popped(op, target) ==
  /\ _cache_count' = IF op = "count" THEN target ELSE _cache_count
  /\ _cache_search' = IF op = "search" THEN target ELSE _cache_search
  /\ stored' = Evicted(op, target)

\* Job.count of one thread among several: the lookup and, on a miss, the read
count_begin(t) == \E args \in ConcCounts : Begin(t, "count", args)

\* Job.search of one thread among several: the lookup and, on a miss, the read
search_begin(t) == \E args \in ConcSearches : Begin(t, "search", args)

\* `Job._cache_count[key] = (time.time(), int(value))` and the same line of
\* _cache_set_search: one dictionary store, atomic under the interpreter lock
dict_set(t) ==
  /\ pend[t].pc = "fetched"
  /\ Stored(pend[t].op, pend[t].key, pend[t].value[1], pend[t].readAt,
            DictSet(Target(pend[t].op), pend[t].key, now, pend[t].value[1]))
  /\ pend' = [pend EXCEPT ![t].pc = "stored"]
  /\ ev' = StepEvent(t)
  /\ UNCHANGED <<jobs, now, subscribers, log_events, resp>>

\* `if len(target) <= Job._CACHE_MAX: return`
prune_check(t) ==
  /\ pend[t].pc = "stored"
  /\ IF Len(Target(pend[t].op)) <= _CACHE_MAX
       THEN /\ pend' = [pend EXCEPT ![t] = Idle]
            /\ ev' = ReturnEvent(pend[t], t)
       ELSE /\ pend' = [pend EXCEPT ![t].pc = "over"]
            /\ ev' = StepEvent(t)
  /\ UNCHANGED <<jobs, _cache_count, _cache_search, now, stored,
                 subscribers, log_events, resp>>

\* `sorted(target.items(), key=lambda kv: kv[1][0])`: the items are copied
\* into a list in one step
prune_sort(t) ==
  /\ pend[t].pc = "over"
  /\ pend' = [pend EXCEPT ![t].pc = "sorted",
                          ![t].snap = SortedByAt(Target(pend[t].op))]
  /\ ev' = StepEvent(t)
  /\ UNCHANGED <<jobs, _cache_count, _cache_search, now, stored,
                 subscribers, log_events, resp>>

\* `[: len(target) - Job._CACHE_MAX]`: the length is read after the sort
prune_slice(t) ==
  /\ pend[t].pc = "sorted"
  /\ pend' = [pend EXCEPT ![t].pc = "popping", ![t].snap = <<>>,
                          ![t].oldest = SliceTo(pend[t].snap,
                                          Len(Target(pend[t].op)) - _CACHE_MAX)]
  /\ ev' = StepEvent(t)
  /\ UNCHANGED <<jobs, _cache_count, _cache_search, now, stored,
                 subscribers, log_events, resp>>

\* `for key, _ in oldest: target.pop(key, None)`, one pop
prune_pop(t) ==
  /\ pend[t].pc = "popping"
  /\ pend[t].oldest # <<>>
  /\ Popped(pend[t].op, DictPop(Target(pend[t].op), Head(pend[t].oldest).key))
  /\ pend' = [pend EXCEPT ![t].oldest = Tail(pend[t].oldest)]
  /\ ev' = StepEvent(t)
  /\ UNCHANGED <<jobs, now, subscribers, log_events, resp>>

\* the loop is over: _cache_prune and the call return
prune_return(t) ==
  /\ pend[t].pc = "popping"
  /\ pend[t].oldest = <<>>
  /\ pend' = [pend EXCEPT ![t] = Idle]
  /\ ev' = ReturnEvent(pend[t], t)
  /\ UNCHANGED <<jobs, _cache_count, _cache_search, now, stored,
                 subscribers, log_events, resp>>

NextConc ==
  \/ \E t \in Threads : count_begin(t)
  \/ \E t \in Threads : search_begin(t)
  \/ \E t \in Threads : dict_set(t)
  \/ \E t \in Threads : prune_check(t)
  \/ \E t \in Threads : prune_sort(t)
  \/ \E t \in Threads : prune_slice(t)
  \/ \E t \in Threads : prune_pop(t)
  \/ \E t \in Threads : prune_return(t)

\* NThreads threads of one process call Job.count and Job.search over an
\* unchanged jobs table, within one reading of the clock; the interpreter lock
\* makes each dictionary operation one step and lets the threads interleave
\* between them
SpecConc == InitCache /\ [][NextConc]_vars

\* ------------------------------------------------------------------ requests

\* handle_server_error: what the client gets for an exception no handler caught
ServerError(route, request) ==
  [NoResponse EXCEPT !.route = route, !.request = request, !.code = 500,
                     !.asked = TRUE, !.failed = TRUE,
                     !.error = "internal error"]

\* Job.count / Job.search as its caller sees it: the value returned or the
\* exception raised, whether the datastore was asked, and the cache left behind
Outcome(cache, key, cached, value, fail) ==
  IF cached # None
    THEN [raised |-> FALSE, asked |-> FALSE, value |-> cached, cache |-> cache]
  ELSE IF fail
    THEN [raised |-> TRUE, asked |-> TRUE, value |-> None, cache |-> cache]
  ELSE [raised |-> FALSE, asked |-> TRUE, value |-> Some(value),
        cache |-> _cache_set(cache, key, now, value)]

JobCall(op, cache, args, fail) ==
  Outcome(cache, KeyOf(op, args), _cache_get(cache, KeyOf(op, args), now),
          Results[<<jobs, <<op, args>>>>], fail)

\* a call the handler never reached
Skipped(cache) == [raised |-> FALSE, asked |-> FALSE, value |-> None, cache |-> cache]

\* the history after the writes of a request
Written(st, op, args, o) ==
  IF o.asked /\ ~o.raised
    THEN StoredIn(st, op, KeyOf(op, args), now, now, o.value[1], o.cache)
    ELSE st

\* what a request leaves behind: the two caches, the history, the response
Responded(c, cargs, s, sargs, response) ==
  /\ _cache_count' = c.cache
  /\ _cache_search' = s.cache
  /\ stored' = Written(Written(stored, "count", cargs, c), "search", sargs, s)
  /\ resp' = [response EXCEPT !.asked = c.asked \/ s.asked,
                              !.failed = c.raised \/ s.raised]
  /\ ev' = [NoEvent EXCEPT !.kind = "request", !.op = response.route]
  /\ UNCHANGED <<jobs, now, pend, subscribers, log_events>>

\* index, after the lookups: the try block leaves no rows and a zero total
\* when either call raised; an unfiltered request without items shows the
\* demo jobs
IndexPage(raw_country, c, cargs, s, sargs, rows, total) ==
  Responded(c, cargs, s, sargs,
    IF raw_country = <<>> /\ rows = <<>>
      THEN [NoResponse EXCEPT !.route = "index", !.request = raw_country, !.code = 200,
                              !.demo = TRUE, !.total = DemoJobs]
      ELSE [NoResponse EXCEPT !.route = "index", !.request = raw_country, !.code = 200,
                              !.rows = rows, !.total = total,
                              !.links = IndexLinks(rows)])

IndexSearched(raw_country, c, cargs, s, sargs) ==
  IndexPage(raw_country, c, cargs, s, sargs,
            IF c.raised \/ s.raised THEN <<>> ELSE s.value[1],
            IF c.raised \/ s.raised THEN 0 ELSE c.value[1])

IndexCounted(raw_country, c, cargs, sargs, fs) ==
  IndexSearched(raw_country, c, cargs,
                IF c.raised THEN Skipped(_cache_search)
                ELSE JobCall("search", _cache_search, sargs, fs), sargs)

IndexQuery(raw_country, q_country, fc, fs) ==
  IndexCounted(raw_country,
               JobCall("count", _cache_count, <<None, q_country>>, fc),
               <<None, q_country>>, <<None, q_country, DefaultPerPage, 0>>, fs)

\* GET / with no title text: parse_salary_query("") is ("", None, None) and
\* normalize_title("") is "", so no title predicate and no salary floor
index ==
  \E raw_country \in RouteCountries : \E fc, fs \in BOOLEAN :
    IndexQuery(raw_country, OrNone(normalize_country(raw_country)), fc, fs)

\* api_jobs, after the lookups: a failed COUNT falls back to the number of
\* rows, a failed SELECT to no rows
JobsPage(raw_country, c, cargs, s, sargs, rows) ==
  Responded(c, cargs, s, sargs,
    [NoResponse EXCEPT !.route = "api_jobs", !.request = raw_country, !.code = 200,
                       !.rows = rows, !.links = JobsLinks(rows),
                       !.total = IF c.raised THEN Len(rows) ELSE c.value[1]])

JobsSearched(raw_country, c, cargs, s, sargs) ==
  JobsPage(raw_country, c, cargs, s, sargs, IF s.raised THEN <<>> ELSE s.value[1])

JobsQuery(raw_country, q_country, fc, fs) ==
  JobsSearched(raw_country,
               JobCall("count", _cache_count, <<None, q_country>>, fc),
               <<None, q_country>>,
               JobCall("search", _cache_search, <<None, q_country, DefaultPerPage, 0>>, fs),
               <<None, q_country, DefaultPerPage, 0>>)

\* GET /api/jobs with no title text
api_jobs ==
  \E raw_country \in RouteCountries : \E fc, fs \in BOOLEAN :
    JobsQuery(raw_country, OrNone(normalize_country(raw_country)), fc, fs)

SummaryPage(raw_country, c, cargs, s, sargs) ==
  Responded(c, cargs, s, sargs,
    [NoResponse EXCEPT !.route = "api_jobs_summary", !.request = raw_country,
                       !.code = 200,
                       !.rows = IF s.raised THEN <<>> ELSE s.value[1],
                       !.total = IF c.raised THEN 0 ELSE c.value[1]])

SummaryQuery(raw_country, q_country, fc, fs) ==
  SummaryPage(raw_country,
              JobCall("count", _cache_count, <<None, q_country>>, fc),
              <<None, q_country>>,
              JobCall("search", _cache_search, <<None, q_country, max_samples, 0>>, fs),
              <<None, q_country, max_samples, 0>>)

\* GET /api/jobs/summary with no title text: each lookup in a try of its own
api_jobs_summary ==
  \E raw_country \in RouteCountries : \E fc, fs \in BOOLEAN :
    SummaryQuery(raw_country, OrNone(normalize_country(raw_country)), fc, fs)

InsightsPage(raw_country, s, sargs) ==
  Responded(Skipped(_cache_count), <<>>, s, sargs,
    IF s.raised THEN ServerError("api_salary_insights", raw_country)
    ELSE [NoResponse EXCEPT !.route = "api_salary_insights", !.request = raw_country,
                            !.code = 200, !.rows = s.value[1],
                            !.links = InsightsLinks(s.value[1]),
                            !.total = Len(s.value[1])])

InsightsQuery(raw_country, sargs, fs) ==
  InsightsPage(raw_country, JobCall("search", _cache_search, sargs, fs), sargs)

\* GET /api/salary-insights with no title text: Job.search is called outside
\* any try
api_salary_insights ==
  \E raw_country \in RouteCountries : \E fs \in BOOLEAN :
    InsightsQuery(raw_country,
                  <<None, OrNone(normalize_country(raw_country)), InsightsLimit, 0>>, fs)

\* job_detail, once the job is found: the page shows the job's link unless
\* it is blacklisted; the related-jobs search runs in a try of its own
DetailPage(job_id, row, s, sargs) ==
  Responded(Skipped(_cache_count), <<>>, s, sargs,
    [NoResponse EXCEPT !.route = "job_detail", !.request = job_id, !.code = 200,
                       !.rows = <<SearchRow(row)>>, !.total = 1,
                       !.links = IndexLinks(<<row>>)])

DetailFound(job_id, row, fs) ==
  IF row = None
    THEN Responded(Skipped(_cache_count), <<>>, Skipped(_cache_search), <<>>,
           [NoResponse EXCEPT !.route = "job_detail", !.request = job_id,
                              !.code = 404, !.error = "not found"])
    ELSE DetailPage(job_id, row[1],
                    JobCall("search", _cache_search, RelatedArgs(row[1]), fs),
                    RelatedArgs(row[1]))

\* GET /jobs/<job_id>
job_detail ==
  \E job_id \in DetailIds : \E fs \in BOOLEAN :
    DetailFound(job_id, get_by_id(jobs, job_id), fs)

\* ------------------------------------------------------------------ subscribers and events

\* how a datastore call of a request ends: it works, get_db() raises, or the
\* statement raises
Failures == {"none", "connect", "execute"}

\* the position of the only "@" of an address, 0 when there is none or several
AtSign(e) ==
  IF Cardinality({i \in 1..Len(e) : e[i] = "@"}) = 1
    THEN CHOOSE i \in 1..Len(e) : e[i] = "@"
    ELSE 0

\* validate_email(email, check_deliverability=False).normalized for plain
\* addresses: one "@", a local part, a dotted domain; the domain is lowercased.
\* None stands for EmailNotValidError
NormalizedAt(e, at) ==
  IF /\ at > 1 /\ at < Len(e)
     /\ \E i \in (at + 2)..(Len(e) - 1) : e[i] = "."
     /\ \A i \in 1..Len(e) : ~IsSpace(e[i])
    THEN Some(SubSeq(e, 1, at) \o Lower(SubSeq(e, at + 1, Len(e))))
    ELSE None

validate_email(e) == NormalizedAt(e, AtSign(e))

\* urlparse(target).scheme: the text before the first ":" when it starts with
\* a letter and holds only letters, digits, "+", "-", "."
SchemeEnd(t) ==
  IF \E i \in 2..Len(t) :
       /\ t[i] = ":"
       /\ IsAlpha(<<t[1]>>)
       /\ \A j \in 1..(i - 1) :
            IsAlpha(<<t[j]>>) \/ t[j] \in Range(Digits) \cup {"+", "-", "."}
    THEN CHOOSE i \in 2..Len(t) : t[i] = ":" /\ \A j \in 1..(i - 1) : t[j] # ":"
    ELSE 0

\* urlparse(target).netloc of the text after the scheme: what follows "//" up
\* to the next "/", "?" or "#"
NetlocOf(rest) ==
  IF Len(rest) >= 2 /\ rest[1] = "/" /\ rest[2] = "/"
    THEN SubSeq(rest, 3,
           IF \E i \in 3..Len(rest) : rest[i] \in {"/", "?", "#"}
             THEN (CHOOSE i \in 3..Len(rest) :
                     /\ rest[i] \in {"/", "?", "#"}
                     /\ \A j \in 3..(i - 1) : rest[j] \notin {"/", "?", "#"}) - 1
             ELSE Len(rest))
    ELSE <<>>

SafeParsed(target, scheme, netloc) ==
  IF scheme = <<>> /\ netloc = <<>> THEN target # <<>> /\ target[1] = "/"
  ELSE Lower(scheme) \in {<<"h","t","t","p">>, <<"h","t","t","p","s">>} /\ netloc # <<>>

SafeFrom(target, t, end) ==
  SafeParsed(target, SubSeq(t, 1, end - 1), NetlocOf(SubSeq(t, end + 1, Len(t))))

\* _is_safe_redirect_target
_is_safe_redirect_target(target) ==
  IF target = <<>> THEN FALSE ELSE SafeFrom(target, Strip(target), SchemeEnd(Strip(target)))

\* the JSON body or the redirect of POST /subscribe once the address was
\* stored or refused; job_link is None when there is nowhere to send the client
SubscribeReply(request, status, job_link) ==
  IF job_link # None
    THEN IF status = "error"
           THEN IF request.is_json
                  THEN [NoResponse EXCEPT !.route = "subscribe", !.request = request,
                                          !.code = 500, !.error = "subscribe_failed"]
                  ELSE [NoResponse EXCEPT !.route = "subscribe", !.request = request,
                                          !.code = 302, !.location = Some(<<"/">>),
                                          !.flash = "error"]
         ELSE IF request.is_json
                THEN [NoResponse EXCEPT !.route = "subscribe", !.request = request,
                                        !.code = 200, !.status = status,
                                        !.redirect = job_link]
                ELSE [NoResponse EXCEPT !.route = "subscribe", !.request = request,
                                        !.code = 302, !.location = job_link,
                                        !.flash = "success"]
  ELSE IF status = "ok"
    THEN IF request.is_json
           THEN [NoResponse EXCEPT !.route = "subscribe", !.request = request,
                                   !.code = 200, !.status = "ok"]
           ELSE [NoResponse EXCEPT !.route = "subscribe", !.request = request,
                                   !.code = 302, !.location = Some(<<"/">>),
                                   !.flash = "success"]
  ELSE IF status = "duplicate"
    THEN IF request.is_json
           THEN [NoResponse EXCEPT !.route = "subscribe", !.request = request,
                                   !.code = 200, !.error = "duplicate"]
           ELSE [NoResponse EXCEPT !.route = "subscribe", !.request = request,
                                   !.code = 302, !.location = Some(<<"/">>),
                                   !.flash = "success"]
  ELSE IF request.is_json
         THEN [NoResponse EXCEPT !.route = "subscribe", !.request = request,
                                 !.code = 500, !.error = "subscribe_failed"]
         ELSE [NoResponse EXCEPT !.route = "subscribe", !.request = request,
                                 !.code = 302, !.location = Some(<<"/">>),
                                 !.flash = "error"]

\* an insert_subscriber that stores the address whatever the table holds
insert_always(table, email, fail) ==
  IF fail = "connect" THEN [status |-> "raise", table |-> table]
  ELSE IF fail = "execute" THEN [status |-> "error", table |-> table]
  ELSE [status |-> "ok", table |-> Append(table, email)]

\* insert_subscriber: "ok", "duplicate" (the unique violation on email) or
\* "error"; get_db() is called outside the try, so "raise" when it fails
insert_subscriber(table, email, fail) ==
  IF fail = "connect" THEN [status |-> "raise", table |-> table]
  ELSE IF fail = "execute" THEN [status |-> "error", table |-> table]
  ELSE IF \E i \in 1..Len(table) : table[i] = email
    THEN [status |-> "duplicate", table |-> table]
  ELSE [status |-> "ok", table |-> Append(table, email)]

\* the end of a POST /subscribe
Subscribed(table, response) ==
  /\ subscribers' = table
  /\ resp' = response
  /\ ev' = [NoEvent EXCEPT !.kind = "request", !.op = "subscribe"]
  /\ UNCHANGED <<jobs, _cache_count, _cache_search, now, pend, stored, log_events>>

SubscribeInserted(request, job_link, ins) ==
  Subscribed(ins.table,
    IF ins.status = "raise"
      THEN [ServerError("subscribe", request) EXCEPT !.asked = FALSE, !.failed = TRUE]
      ELSE [SubscribeReply(request, ins.status, job_link)
              EXCEPT !.failed = (ins.status = "error")])

\* `if not job_link and next_url and _is_safe_redirect_target(next_url)`
SubscribeLinked(request, link, next_url, fi) ==
  SubscribeInserted(request,
    IF Truthy(link) THEN link
    ELSE IF next_url # <<>> /\ _is_safe_redirect_target(next_url) THEN Some(next_url)
    ELSE None,
    insert_subscriber(subscribers, request.email, fi))

\* Job.get_link asks the datastore when the id is a number; it has no try
SubscribeValid(request, job_id_raw, next_url, fl, fi) ==
  IF ParseInt(job_id_raw) # None /\ fl # "none"
    THEN Subscribed(subscribers,
           [ServerError("subscribe", request) EXCEPT !.asked = FALSE, !.failed = TRUE])
    ELSE SubscribeLinked(request, get_link(jobs, Some(job_id_raw)), next_url, fi)

SubscribePosted(is_json, raw_email, email, job_id_raw, next_url, fl, fi) ==
  IF email = None
    THEN Subscribed(subscribers,
           IF is_json
             THEN [NoResponse EXCEPT !.route = "subscribe", !.code = 400,
                     !.request = [is_json |-> is_json, email |-> raw_email, valid |-> FALSE,
                                  job_id |-> job_id_raw, next |-> next_url],
                     !.error = "invalid_email"]
             ELSE [NoResponse EXCEPT !.route = "subscribe", !.code = 302,
                     !.request = [is_json |-> is_json, email |-> raw_email, valid |-> FALSE,
                                  job_id |-> job_id_raw, next |-> next_url],
                     !.location = Some(<<"/">>), !.flash = "error"])
    ELSE SubscribeValid([is_json |-> is_json, email |-> email[1], valid |-> TRUE,
                         job_id |-> job_id_raw, next |-> next_url],
                        job_id_raw, next_url, fl, fi)

\* the ways Job.get_link can end: it asks the datastore only for a valid
\* address and a numeric id
LinkFailures(email, job_id_raw) ==
  IF email # None /\ ParseInt(job_id_raw) # None THEN Failures ELSE {"none"}

\* POST /subscribe, JSON or form
subscribe(emails) ==
  \E is_json \in BOOLEAN : \E email \in emails : \E job_id \in SubscribeJobIds :
    \E next_url \in NextUrls :
      \E fl \in LinkFailures(validate_email(Strip(email)), Strip(job_id)) :
        \E fi \in (IF validate_email(Strip(email)) = None \/ fl # "none"
                      THEN {"none"} ELSE Failures) :
          SubscribePosted(is_json, Strip(email), validate_email(Strip(email)),
                          Strip(job_id), Strip(next_url), fl, fi)

\* POST /events/apply: the handler reads the payload into local names and
\* answers; it calls nothing else
events_apply ==
  /\ \E payload \in ApplyPayloads :
       resp' = [NoResponse EXCEPT !.route = "events_apply", !.request = payload,
                                  !.code = 200, !.status = "ok"]
  /\ ev' = [NoEvent EXCEPT !.kind = "request", !.op = "events_apply"]
  /\ UNCHANGED <<jobs, _cache_count, _cache_search, now, pend, stored,
                 subscribers, log_events>>

\* `(a or b)` for an optional string and a string
OrElse(o, b) == IF Truthy(o) THEN o[1] ELSE b

\* _hash: the digest stands as the value tagged with the algorithm
_hash(value) == <<"s","h","a","2","5","6",":">> \o value

\* the columns of the row insert_search_event writes, from its safe_* names
EventColumns(a, safe_event_type, safe_job_title, safe_job_location) ==
  [raw_title |-> PyOr(Strip(PyOr(a.raw_title, safe_job_title)), <<"N","/","A">>),
   raw_country |-> PyOr(Strip(PyOr(a.raw_country, safe_job_location)), <<"N","/","A">>),
   norm_title |->
     Strip(PyOr(a.norm_title, IF safe_event_type = <<"a","p","p","l","y">> THEN <<"a","p","p","l","y">> ELSE <<>>)),
   source |-> SliceTo(PyOr(a.source, <<"s","e","r","v","e","r">>), 50),
   event_status |->
     SliceTo(Strip(OrElse(a.event_status,
                          IF safe_event_type = <<"s","e","a","r","c","h">> THEN <<"o","k">> ELSE <<>>)), 50),
   event_type |-> SliceTo(safe_event_type, 20),
   job_title_event |-> SliceTo(safe_job_title, 300),
   job_link_event |-> SliceTo(Strip(OrEmpty(a.job_link)), 500),
   job_summary_event |-> SliceTo(Strip(OrEmpty(a.job_summary)), 400),
   email_hash |-> SliceTo(Strip(OrEmpty(a.email_hash)), 200)]

EventRow(a) ==
  EventColumns(a, PyOr(Strip(OrElse(a.event_type, <<"s","e","a","r","c","h">>)), <<"s","e","a","r","c","h">>),
               Strip(OrEmpty(a.job_title)), Strip(OrEmpty(a.job_location)))

\* the keyword arguments of insert_search_event at their defaults
DefaultEvent ==
  [raw_title |-> <<>>, raw_country |-> <<>>, norm_title |-> <<>>, source |-> <<"s","e","r","v","e","r">>,
   event_type |-> Some(<<"s","e","a","r","c","h">>), event_status |-> None, job_title |-> None,
   job_location |-> None, job_link |-> None, job_summary |-> None, email_hash |-> None]

\* the direct calls of insert_search_event
EventCalls ==
  {DefaultEvent,
   [DefaultEvent EXCEPT !.event_type = Some(<<"a","p","p","l","y">>), !.event_status = Some(<<"m","o","d","a","l","_","o","p","e","n">>),
                            !.job_title = Some(<<" ","D","e","v">>), !.job_summary = Some(<<"s","u","m">>)]}

\* the rows log_events may hold
MaxEvents == 2

\* the arguments insert_subscribe_event passes on
SubscribeEvent(email, status, source, job_link) ==
  [DefaultEvent EXCEPT !.raw_title = <<"s","u","b","s","c","r","i","b","e">>, !.norm_title = <<"s","u","b","s","c","r","i","b","e">>,
                       !.source = source, !.event_type = Some(<<"s","u","b","s","c","r","i","b","e">>),
                       !.event_status = Some(status), !.job_link = job_link,
                       !.email_hash = Some(_hash(email))]

\* insert_search_event: get_db() and _client_meta() run before the try, the
\* INSERT inside it
Logged(kind, a, fail) ==
  /\ fail = "none" => Len(log_events) < MaxEvents
  /\ log_events' = IF fail = "none" THEN Append(log_events, EventRow(a)) ELSE log_events
  /\ ev' = [NoEvent EXCEPT !.kind = kind, !.args = a, !.raised = (fail = "connect"),
                           !.dbq = (fail # "connect"), !.done = (fail # "connect")]
  /\ UNCHANGED <<jobs, _cache_count, _cache_search, now, pend, stored,
                 subscribers, resp>>

insert_search_event ==
  \E a \in EventCalls : \E fail \in Failures : Logged("insert_search_event", a, fail)

insert_subscribe_event ==
  \E email \in Emails : \E status \in {<<"o","k">>, <<"d","u","p","l","i","c","a","t","e">>} :
    \E job_link \in {None, Some(<<"a">>)} : \E fail \in Failures :
      Logged("insert_subscribe_event",
             SubscribeEvent(email, status, <<"f","o","r","m">>, job_link), fail)

\* the import that fills the jobs table the requests read
Seed ==
  /\ jobs' = insert_many(jobs, RouteBatch)
  /\ ev' = [NoEvent EXCEPT !.kind = "insert_many", !.args = RouteBatch, !.done = TRUE]
  /\ UNCHANGED <<_cache_count, _cache_search, now, pend, stored,
                 subscribers, log_events, resp>>

NextSearch ==
  \/ index
  \/ api_jobs
  \/ api_jobs_summary
  \/ api_salary_insights

\* one request at a time against the routes that list jobs, over a populated
\* jobs table
SpecSearch == InitCache /\ [][NextSearch]_vars

\* a jobs table that holds a blacklisted link
InitLinks ==
  /\ jobs = LinkTable
  /\ _cache_count = <<>>
  /\ _cache_search = <<>>
  /\ now = 0
  /\ pend = [t \in Threads |-> Idle]
  /\ ev = NoEvent
  /\ stored = [count |-> {}, search |-> {}]
  /\ subscribers = <<>>
  /\ log_events = <<>>
  /\ resp = NoResponse

NextLinks ==
  \/ index
  \/ api_jobs
  \/ api_salary_insights
  \/ job_detail

\* one request at a time against the routes that show job links
SpecLinks == InitLinks /\ [][NextLinks]_vars

NextSubscribe ==
  \/ Seed
  \/ subscribe(Emails)

\* one POST /subscribe at a time, against a jobs table that starts empty
SpecSubscribe == Init /\ [][NextSubscribe]_vars

NextRoutes ==
  \/ Seed
  \/ index
  \/ subscribe(OneEmail)
  \/ events_apply

\* one request at a time: searches, subscriptions of one address and apply
\* events, against a jobs table that starts empty
SpecRoutes == Init /\ [][NextRoutes]_vars

NextLogging ==
  \/ insert_search_event
  \/ insert_subscribe_event

\* the analytics helpers called one after the other
SpecLogging == Init /\ [][NextLogging]_vars

\* ------------------------------------------------------------------ normalizers

\* a normalizer is about to be called with ev.args
Given(op, inputs) ==
  /\ jobs = <<>>
  /\ _cache_count = <<>>
  /\ _cache_search = <<>>
  /\ now = 0
  /\ pend = [t \in Threads |-> Idle]
  /\ ev \in {[NoEvent EXCEPT !.kind = "input", !.op = op, !.args = x] : x \in inputs}
  /\ stored = [count |-> {}, search |-> {}]
  /\ subscribers = <<>>
  /\ log_events = <<>>
  /\ resp = NoResponse

\* the call returns `value`; nothing else changes
Returned(op, value) ==
  /\ ev.kind = "input"
  /\ ev.op = op
  /\ ev' = [ev EXCEPT !.kind = "output", !.result = Some(value), !.done = TRUE]
  /\ UNCHANGED <<jobs, _cache_count, _cache_search, now, pend, stored,
                 subscribers, log_events, resp>>

\* the keys of COUNTRY_NORM
Aliases == {COUNTRY_NORM[i][1] : i \in 1..Len(COUNTRY_NORM)}

\* spellings of a text: as it is, upper case, padded, upper case after a tab
Spellings(k) == {k, Upper(k), <<" ">> \o k \o <<" ">>, <<"\t">> \o Upper(k)}

\* the country texts handed to normalize_country: every alias in four
\* spellings, two-character tokens, and free text with and without an alias in it
CountryInputs ==
  UNION {Spellings(k) : k \in Aliases}
    \cup {<<a, b>> : a \in {"x", "Q", "1"}, b \in {"x", "z", "-"}}
    \cup {<<>>, <<" "," ">>, <<" ","X","x"," ">>, <<"H","a","m","b","u","r","g"," ">>, <<"j","o","b","s"," ","i","n"," ","g","e","r","m","a","n","y">>, <<"P","a","r","i","s",","," ","F","r","a","n","c","e">>,
          <<"N","e","w"," ","Y","o","r","k">>, <<"i","n","d","i","a","/","e","u">>, <<"g","e","r","m","a","n","y","s">>}

normalize_country_call == Returned("normalize_country", normalize_country(ev.args))

\* normalize_country applied to one text
SpecCountry == Given("normalize_country", CountryInputs) /\ [][normalize_country_call]_vars

\* the titles handed to normalize_title: every synonym key in four
\* spellings, every synonym value, and other text
TitleInputs ==
  UNION {Spellings(TITLE_SYNONYMS[i][1]) \cup {TITLE_SYNONYMS[i][2]} :
           i \in 1..Len(TITLE_SYNONYMS)}
    \cup {<<>>, <<" ">>, <<"S","e","n","i","o","r"," ","D","e","v","!">>, <<"C","+","+"," ","/"," ","G","o">>, <<" "," ","d","a","t","a"," "," "," ","a","n","a","l","y","s","t"," ">>, <<"Q","A","-","l","e","a","d">>,
          <<"r","&","d">>, <<"n","u","r","s","e">>}

normalize_title_call == Returned("normalize_title", normalize_title(ev.args))

\* normalize_title applied to one text
SpecTitle == Given("normalize_title", TitleInputs) /\ [][normalize_title_call]_vars

\* the salary expressions of a search text: ranges, lower bounds, upper
\* bounds and bare numbers, with "k", separators, spaces and tabs, and text
\* without a number
SalaryExpressions ==
  {<<"8","0","k","-","1","2","0","k">>, <<"8","0","K"," ","-"," ","1","2","0","k">>, <<"8","0","k">> \o <<"U+2013">> \o <<"1","2","0","k">>, <<"8","0",",","0","0","0","-","1","2","0",",","0","0","0">>,
   <<"1","2","0","k","-","8","0","k">>, <<"8","0","k">> \o <<"\t">> \o <<"-"," ","1","2","0","k">>, <<"8","0","k"," ","-">> \o <<"\t">> \o <<"1","2","0">>,
   <<">","1","0","0","k">>, <<">","="," ","1","0","0","k">>, <<">"," ","=","1","0","0"," ","0","0","0">>, <<">","1","0","0">> \o <<"\t">>,
   <<"<","=","9","0","k">>, <<"<"," ","9","0",".","0","0","0">>, <<"<","9","0">> \o <<"\t">> \o <<"k">>,
   <<"1","2","0","k">>, <<"1",",","5","0","0">>, <<"1",".","5","k">>, <<"0","0","7">>, <<"1","0","0">> \o <<"\t">> \o <<"k">>,
   <<">","5","0","k"," ","<","9","0","k">>, <<"<","9","0","k"," ","6","0","k","-","7","0","k">>, <<"4","0","k"," ",">","5","0","k">>, <<"g","o">>, <<"c","-","3","p","o">>, <<>>}

SalaryPrefixes == {<<>>, <<"d","e","v"," ">>, <<" "," ">>}

SalarySuffixes == {<<>>, <<" ","s","e","n","i","o","r"," ","d","e","v">>, <<" ","k","o","t","l","i","n">>}

\* the texts handed to parse_salary_query
SalaryInputs ==
  {p \o e \o x : p \in SalaryPrefixes, e \in SalaryExpressions, x \in SalarySuffixes}

parse_salary_query_call == Returned("parse_salary_query", parse_salary_query(ev.args))

\* parse_salary_query applied to one text
SpecSalary == Given("parse_salary_query", SalaryInputs) /\ [][parse_salary_query_call]_vars

\* a stored job by its text columns ("" for NULL)
FixtureRow(title, description, location, city, region, country) ==
  [job_title |-> title, job_title_norm |-> Lower(title), job_description |-> description,
   location |-> location, city |-> city, region |-> region, country |-> country]

\* fixture rows that differ in their location columns
PlaceRows ==
  {FixtureRow(<<"E","n","g","i","n","e","e","r">>, <<>>, l, c, r, k) :
     l \in {<<>>, <<"R","e","m","o","t","e">>, <<"P","a","r","i","s",","," ","F","R">>, <<"B","e","r","l","i","n"," ","(","D","E",")">>},
     c \in {<<>>, <<"B","e","r","l","i","n">>, <<"H","a","m","b","u","r","g">>, <<"M","u","n","i","c","h">>, <<"P","a","r","i","s">>},
     r \in {<<>>, <<"B","a","v","a","r","i","a">>, <<"I","l","e","-","d","e","-","F","r","a","n","c","e">>},
     k \in {<<>>, <<"G","e","r","m","a","n","y">>, <<"F","R">>, <<"D","E">>}}

\* the country values handed to Job._where with the place rows
FixtureCountries == {<<"D","E">>, <<" ","d","e"," ">>, <<"H","a","m","b","u","r","g">>}

\* text with and without the characters LIKE gives a meaning to
LikeTexts ==
  {<<>>, <<"a","_","b">>, <<"a","x","b">>, <<"A","_","B"," ","c">>, <<"1","0","0","%">>, <<"1","0","0"," ","p","e","r","c","e","n","t">>, <<"1","0","0">>, <<"c","\\","d">>, <<"c","d">>,
   <<"c","\\","\\","d">>, <<"%">>, <<"_">>, <<"\\">>, <<"x">>}

\* fixture rows that hold such a text in one column
LikeRows ==
  {FixtureRow(x, <<>>, <<>>, <<>>, <<>>, <<>>) : x \in LikeTexts}
    \cup {FixtureRow(<<>>, x, <<>>, <<>>, <<>>, <<>>) : x \in LikeTexts}
    \cup {FixtureRow(<<>>, <<>>, x, <<>>, <<>>, <<>>) : x \in LikeTexts}
    \cup {FixtureRow(<<>>, <<>>, <<>>, <<>>, x, <<>>) : x \in LikeTexts}

\* title and free-text country values with '%', '_' and '\'
LikeValues ==
  {<<"a","_","b">>, <<" ","A","_","b"," ">>, <<"1","0","0","%">>, <<"c","\\","d">>, <<"%">>, <<"_">>, <<"\\">>, <<"_","%">>, <<"\\","%">>, <<"%","x","%">>, <<"c","\\","\\","d">>}

\* a predicate and the row it is executed against
\* rows and titles for the title tokens: the words of the title in the
\* title, in the description or in the location of the row
TokenRows ==
  {FixtureRow(t, d, l, <<>>, <<>>, <<>>) :
     t \in {<<"P","y","t","h","o","n"," ","D","e","v","e","l","o","p","e","r">>, <<"D","a","t","a"," ","A","n","a","l","y","s","t">>, <<"R","e","m","o","t","e"," ","P","y","t","h","o","n"," ","C","o","d","e","r">>, <<"S","e","n","i","o","r"," ","E","n","g","i","n","e","e","r">>},
     d \in {<<>>, <<"W","e"," ","n","e","e","d"," ","a"," ","p","r","o","g","r","a","m","m","e","r">>, <<"p","y","t","h","o","n",","," ","f","u","l","l","y"," ","r","e","m","o","t","e">>},
     l \in {<<>>, <<"R","e","m","o","t","e",","," ","E","U">>}}

TokenTitles ==
  {<<"d","e","v","e","l","o","p","e","r">>, <<"r","e","m","o","t","e">>, <<"R","e","m","o","t","e"," ","D","e","v","e","l","o","p","e","r">>, <<"p","y","t","h","o","n"," ","d","e","v","e","l","o","p","e","r">>, <<"P","y","t","h","o","n">>,
   <<" ","p","y","t","h","o","n"," "," ","r","e","m","o","t","e"," ","d","e","v","e","l","o","p","e","r"," ">>}

\* rows and countries for the group tokens: hub names and member codes
\* in the city, in the country, in the location and in the region
GroupRows ==
  {FixtureRow(<<"E","n","g","i","n","e","e","r">>, <<>>, l, c, r, k) :
     l \in {<<>>, <<"B","e","r","l","i","n",","," ","D","E">>, <<"L","o","n","d","o","n">>},
     c \in {<<>>, <<"B","e","r","l","i","n">>, <<"L","O","N","D","O","N">>, <<"B","a","r","c","e","l","o","n","a">>, <<"M","i","l","a","n","o">>, <<"L","y","o","n">>, <<" ","b","e","r","l","i","n">>,
            <<"N","e","w"," ","Y","o","r","k"," ","C","i","t","y">>},
     r \in {<<>>, <<"P","a","r","i","s">>},
     k \in {<<>>, <<"F","R">>, <<"d","e">>, <<"U","S">>, <<"F","r","a","n","c","e">>, <<"C","H">>}}

GroupTokens == {<<"E","U">>, <<"H","I","G","H","_","P","A","Y">>, <<" ","e","u"," ">>, <<"h","i","g","h","_","p","a","y">>}

WhereInputs ==
  [row : PlaceRows, title : {None}, country : {Some(c) : c \in FixtureCountries}]
    \cup [row : LikeRows, title : {Some(v) : v \in LikeValues}, country : {None}]
    \cup [row : LikeRows, title : {None}, country : {Some(v) : v \in LikeValues}]
    \cup [row : TokenRows, title : {Some(t) : t \in TokenTitles}, country : {None}]
    \cup [row : GroupRows, title : {None}, country : {Some(g) : g \in GroupTokens}]

\* SELECT ... FROM jobs <where of Job._where(title, country)> against one row
where_row == Returned("_where", WhereHolds(ev.args.row, _where(ev.args.title, ev.args.country)))

\* the predicate of Job._where executed against one row
SpecWhere == Given("_where", WhereInputs) /\ [][where_row]_vars

\* the medians of the salary table rows an estimate is made from
Medians == {-100, 0, 500, 80000, 83000, 100000, 100010, 125000, 1000000}

\* what get_salary_for_location returned for the row's location
SalaryRecords == {None} \cup {Some(<<m, "EUR">>) : m \in Medians}

\* the salary floor parsed from the search text
SalaryFloors == {None, Some(50000), Some(100000), Some(120000), Some(150000)}

EstimateTitles ==
  {<<"E","n","g","i","n","e","e","r">>, <<"S","e","n","i","o","r"," ","E","n","g","i","n","e","e","r">>, <<"P","r","i","n","c","i","p","a","l"," ","S","e","n","i","o","r"," ","E","n","g","i","n","e","e","r">>, <<"T","e","a","m"," ","L","e","a","d">>,
   <<"L","e","a","d"," ","E","n","g","i","n","e","e","r">>, <<"S","r","."," ","D","e","v">>, <<"H","e","a","d"," "," ","o","f"," ","D","a","t","a">>, <<>>}

EstimateInputs ==
  [sal_floor : SalaryFloors, rec : SalaryRecords,
   row : {[job_title |-> t] : t \in EstimateTitles}]

\* index, for one row of the page: the salary fields of its item and the
\* salary post-filter
index_row ==
  Returned("estimate",
           [route |-> "index", item |-> index_item(ev.args.sal_floor, ev.args.rec, ev.args.row)])

\* job_detail, for the row of the job: its salary fields
detail_row ==
  Returned("estimate",
           [route |-> "job_detail", item |-> detail_salary(ev.args.rec, ev.args.row)])

NextEstimate ==
  \/ index_row
  \/ detail_row

\* the salary estimate of one row, by index or by job_detail
SpecEstimate == Given("estimate", EstimateInputs) /\ [][NextEstimate]_vars

\* a row of the salary table ("" for a NULL text, None for a NULL median)
SalaryRow(location, city, region, country, median, currency) ==
  [location |-> location, city |-> city, region |-> region, country |-> country,
   median_salary |-> median, currency |-> currency]

SalaryPool ==
  {SalaryRow(<<"B","e","r","l","i","n",","," ","D","E">>, <<"B","e","r","l","i","n">>, <<"B","e","r","l","i","n">>, <<"D","E">>, Some(120000), <<"E","U","R">>),
   SalaryRow(<<"B","a","v","a","r","i","a">>, <<>>, <<"B","a","v","a","r","i","a">>, <<"D","E">>, Some(90000), <<"E","U","R">>),
   SalaryRow(<<"G","e","r","m","a","n","y">>, <<>>, <<>>, <<"D","E">>, Some(70000), <<>>),
   SalaryRow(<<"M","u","n","i","c","h",","," ","B","a","v","a","r","i","a">>, <<"M","u","n","i","c","h">>, <<"B","a","v","a","r","i","a">>, <<"D","E">>, None, <<"E","U","R">>),
   SalaryRow(<<"N","e","w"," ","Y","o","r","k"," ","C","i","t","y">>, <<"N","e","w"," ","Y","o","r","k">>, <<"N","Y">>, <<"U","S">>, Some(150000), <<"U","S","D">>)}

\* the salary tables: every part of the pool
SalaryTables == SUBSET SalaryPool

SalaryLocations ==
  {<<>>, <<" "," ">>, <<"B","e","r","l","i","n">>, <<" ","b","e","r","l","i","n",","," ","d","e"," ">>, <<"M","u","n","i","c","h",","," ","B","a","v","a","r","i","a">>, <<"M","u","n","i","c","h"," ","/"," ","D","E">>, <<"B","a","v","a","r","i","a">>,
   <<"D","E">>, <<"U","n","k","n","o","w","n"," ","C","i","t","y">>, <<"Y","o","r","k">>, <<"B","e","r","l","i","n"," ","(","D","E",")">>, <<"b","e","r","_","i","n">>}

\* the number of SELECTs a call can issue for these locations, and the
\* SELECT that raises (0: none)
MaxQueries == 10

LookupInputs ==
  [table : SalaryTables, location : SalaryLocations, failing : {0, 1, 4, MaxQueries}]

\* get_salary_for_location(location) against a salary table
get_salary_for_location_call ==
  \E value \in get_salary_for_location(ev.args.table, ev.args.location, ev.args.failing) :
    Returned("get_salary_for_location", value)

\* one call of get_salary_for_location
SpecSalaryLookup ==
  Given("get_salary_for_location", LookupInputs) /\ [][get_salary_for_location_call]_vars

\* ---- Job._where called for its SQL text
SqlTitles ==
  {None, Some(<<>>), Some(<<" "," ">>), Some(<<"D","e","v">>), Some(<<"r","e","m","o","t","e">>), Some(<<"d","e","v","e","l","o","p","e","r">>),
   Some(<<" ","S","e","n","i","o","r"," ","R","e","m","o","t","e"," ","D","e","v","e","l","o","p","e","r">>), Some(<<"w","h","a","t","?">>), Some(<<"1","0","0","%","s">>), Some(<<"c","_","\\">>)}

SqlCountries ==
  {None, Some(<<>>), Some(<<"E","U">>), Some(<<"h","i","g","h","_","p","a","y">>), Some(<<"I","N">>), Some(<<"c","h">>),
   Some(<<"D","E"," ">>), Some(<<"u","s">>), Some(<<"u","k">>), Some(<<"z","z">>), Some(<<"H","a","m","b","u","r","g">>), Some(<<"a","?","%","s">>)}

SqlInputs == [title : SqlTitles, country : SqlCountries]

_where_call == Returned("_where_sql", _where_sql(ev.args.title, ev.args.country))

SpecWhereSql == Given("_where_sql", SqlInputs) /\ [][_where_call]_vars

\* ---- Job.search read page by page
\* a stored row of the jobs table
StoredRow(id, location, city, country, date) ==
  [id |-> id, job_title |-> <<"E","n","g","i","n","e","e","r">>, job_title_norm |-> <<"e","n","g","i","n","e","e","r">>,
   job_description |-> <<>>, location |-> location, city |-> city, region |-> <<>>,
   country |-> country, link |-> <<Digits[id + 1]>>, date |-> date]

\* the rows tables are made of: equal dates, no date (NULL), the empty
\* date insert_many stores for a row without one, hubs in the location
StoredPool ==
  << StoredRow(1, <<"P","a","r","i","s",","," ","F","R">>, <<"P","a","r","i","s">>, <<"F","R">>, Some(<<"2","0","2","4","-","0","5">>)),
     StoredRow(2, <<"B","e","r","l","i","n">>, <<"B","e","r","l","i","n">>, <<"D","E">>, None),
     StoredRow(3, <<"L","y","o","n">>, <<"L","y","o","n">>, <<"F","R">>, Some(<<"2","0","2","4","-","0","5">>)),
     StoredRow(4, <<"M","a","d","r","i","d"," ","o","f","f","i","c","e">>, <<"M","a","d","r","i","d">>, <<"E","S">>, Some(<<"2","0","2","4","-","0","3">>)),
     StoredRow(5, <<"L","o","n","d","o","n">>, <<"L","o","n","d","o","n">>, <<"U","K">>, Some(<<"2","0","2","4","-","0","6">>)),
     StoredRow(6, <<>>, <<"M","i","l","a","n","o">>, <<"I","T">>, None),
     StoredRow(7, <<"R","e","m","o","t","e">>, <<"P","a","r","i","s">>, <<"F","R">>, Some(<<>>)) >>

\* the rows of the pool with their ids in a set, in id order
StoredTable(ids) ==
  SelectSeq(StoredPool, LAMBDA row : row.id \in ids)

MaxLimit == 3

PageInputs ==
  [table : {StoredTable(ids) : ids \in SUBSET (1..Len(StoredPool))},
   country : {None, Some(<<"E","U">>), Some(<<"h","i","g","h","_","p","a","y">>), Some(<<"F","R">>)},
   limit : 1..MaxLimit]

\* the datastore's answers to Job.search(None, country, limit, offset) for
\* the offsets 0, limit, 2 * limit, ... up to the first offset past the
\* end, and to one search for the whole result
Pages(table, country, limit) ==
  [k \in 1..((Len(table) \div limit) + 1) |->
     SelectRows(table, None, country, limit, (k - 1) * limit)]

search_pages ==
  Returned("search",
           [pages |-> Pages(ev.args.table, ev.args.country, ev.args.limit),
            full |-> SelectRows(ev.args.table, None, ev.args.country,
                                Len(ev.args.table), 0)])

SpecPages == Given("search", PageInputs) /\ [][search_pages]_vars

\* ---- salary_range_around on whole medians
MedianStep == 250

MaxMedian == 150000

RangeMedians ==
  {k * MedianStep : k \in 0..(MaxMedian \div MedianStep)}
    \cup (1240..1260) \cup (8330..8340) \cup (12490..12510) \cup (16660..16670)

salary_range_around_call ==
  Returned("salary_range_around", salary_range_around(ev.args))

SpecRange == Given("salary_range_around", RangeMedians) /\ [][salary_range_around_call]_vars

\* ---- _compact_salary_number on whole amounts
CompactStep == 5000

MaxCompact == 3000000

CompactValues ==
  {k * CompactStep : k \in 0..(MaxCompact \div CompactStep)}
    \cup (0..20) \cup (990..1010)
    \cup {k * 1000 + d : k \in 1..30, d \in {0, 499, 500, 501}}
    \cup (994490..994510) \cup (999490..999510)
    \cup {996000, 1049999, 1050001, 1250000, 1949999, 1950001}

_compact_salary_number_call ==
  Returned("_compact_salary_number", _compact_salary_number(ev.args * Hundredths))

SpecCompact ==
  Given("_compact_salary_number", CompactValues) /\ [][_compact_salary_number_call]_vars

\* ---- pagination of index and /api/jobs
PER_PAGE_MAX == 100

\* `request.args.get(name, default=d, type=int) or d`: a missing argument
\* and 0 give the default
ArgOr(raw, d) == IF raw = None \/ raw = Some(0) THEN d ELSE raw[1]

\* _resolve_pagination: (page, per_page) of the page and per_page arguments
_resolve_pagination(page_raw, per_page_raw) ==
  LET per_page_or == ArgOr(per_page_raw, DefaultPerPage)
      page_or == ArgOr(page_raw, 1)
  IN  <<IF page_or < 1 THEN 1 ELSE page_or,
        IF per_page_or > PER_PAGE_MAX THEN PER_PAGE_MAX
        ELSE IF per_page_or < 1 THEN 1 ELSE per_page_or>>

\* (total + per_page_display - 1) // per_page_display, at least 1
PagesOf(total, per_page_display) ==
  IF (total + per_page_display - 1) \div per_page_display < 1 THEN 1
  ELSE (total + per_page_display - 1) \div per_page_display

\* index: pages_display, `... if total else 1`
index_pages(total, per_page_display) ==
  IF total # 0 THEN PagesOf(total, per_page_display) ELSE 1

\* api_jobs: pages_display, `... if per_page_display else 1`
api_jobs_pages(total, per_page_display) ==
  IF per_page_display # 0 THEN PagesOf(total, per_page_display) ELSE 1

\* the query and the pagination metadata of a request that is answered
\* with `total` matching rows: LIMIT and OFFSET of Job.search, and page,
\* per_page, pages, has_next as reported
Paginated(route, p, total) ==
  LET pages == IF route = "index" THEN index_pages(total, _display_per_page(p[2]))
               ELSE api_jobs_pages(total, _display_per_page(p[2]))
  IN  [limit |-> p[2], offset |-> (p[1] - 1) * p[2], page |-> p[1],
       per_page |-> _display_per_page(p[2]), total |-> total, pages |-> pages,
       has_prev |-> p[1] > 1, has_next |-> p[1] < pages]

MaxPage == 4

PageTotals == {0, 1, 4, 5, 9, 10, 11, 20, 21, 100, 101, 250}

PaginationInputs ==
  [route : {"index", "api_jobs"},
   page : {None} \cup {Some(n) : n \in 0..MaxPage},
   per_page : {None} \cup {Some(n) : n \in 0..(PER_PAGE_MAX + 1)},
   total : PageTotals]

paginate ==
  Returned("paginate",
           Paginated(ev.args.route, _resolve_pagination(ev.args.page, ev.args.per_page),
                     ev.args.total))

SpecPagination == Given("paginate", PaginationInputs) /\ [][paginate]_vars

\* ---- the title and country index and /api/jobs query with
\* safe_parse_search_params: (title_q, country_q, sal_floor, sal_ceiling)
safe_parse_search_params(raw_title, raw_country) ==
  <<normalize_title(parse_salary_query(raw_title)[1]), normalize_country(raw_country),
    parse_salary_query(raw_title)[2], parse_salary_query(raw_title)[3]>>

\* `if raw_title and not title_q: title_q = normalize_title(raw_title)`,
\* and the same for the country
Fallback(raw_title, raw_country, parsed) ==
  [title_q |-> IF raw_title # <<>> /\ parsed[1] = <<>>
                 THEN normalize_title(raw_title) ELSE parsed[1],
   country_q |-> IF raw_country # <<>> /\ parsed[2] = <<>>
                   THEN normalize_country(raw_country) ELSE parsed[2],
   sal_floor |-> parsed[3], sal_ceiling |-> parsed[4]]

\* index: a floor of 100000 or more written with "100k" and no country
\* searches the high-pay hubs
HighPayQuery(raw_title, raw_country, sal_floor) ==
  /\ sal_floor # None
  /\ sal_floor[1] >= 100000
  /\ Contains(Lower(raw_title), <<"1","0","0","k">>)
  /\ raw_country = <<>>

\* the arguments of Job.count and Job.search in index
IndexArgs(raw_title, raw_country, q) ==
  [q_title |-> OrNone(q.title_q),
   q_country |-> IF HighPayQuery(raw_title, raw_country, q.sal_floor)
                   THEN Some(<<"H","I","G","H","_","P","A","Y">>) ELSE OrNone(q.country_q),
   sal_floor |-> q.sal_floor, sal_ceiling |-> q.sal_ceiling]

\* the arguments of Job.count and of the first Job.search in api_jobs
JobsArgs(q) ==
  [q_title |-> OrNone(q.title_q), q_country |-> OrNone(q.country_q),
   sal_floor |-> q.sal_floor, sal_ceiling |-> q.sal_ceiling]

RouteArgs(route, raw_title, raw_country) ==
  IF route = "index"
    THEN IndexArgs(raw_title, raw_country,
                   Fallback(raw_title, raw_country,
                            safe_parse_search_params(raw_title, raw_country)))
    ELSE JobsArgs(Fallback(raw_title, raw_country,
                           safe_parse_search_params(raw_title, raw_country)))

\* the title and country arguments of the requests
QueryInputs ==
  [route : {"index", "api_jobs"}, title : SalaryInputs \cup {<<"D","e","v">>, <<" "," ">>},
   country : {<<>>, <<"D","E">>, <<" ","G","e","r","m","a","n","y"," ">>}]

\* `(request.args.get("title") or "").strip()` and the query arguments
route_query ==
  Returned("route_query",
           RouteArgs(ev.args.route, Strip(ev.args.title), Strip(ev.args.country)))

SpecQuery == Given("route_query", QueryInputs) /\ [][route_query]_vars

\* ---- index: the page after the salary post-filter
\* the rows Job.search returned: each with the record
\* get_salary_for_location has for its location
FilterRows ==
  [rec : {None, Some(<<80000, "EUR">>), Some(<<125000, "EUR">>)},
   row : {[job_title |-> <<"E","n","g","i","n","e","e","r">>], [job_title |-> <<"S","e","n","i","o","r"," ","E","n","g","i","n","e","e","r">>]}]

MaxRows == 2

FilterPages == UNION {[1..n -> FilterRows] : n \in 0..MaxRows}

FilterTitles ==
  {<<>>, <<"D","e","v">>, <<">","1","0","0","k">>, <<">"," ","1","5","0","k"," ","d","e","v">>, <<"<","9","0","k">>, <<"5","0","k">>, <<"8","0","k","-","1","2","0","k">>, <<"1","2","0","k","-","1","5","0","k">>}

\* the count of the repository beyond the rows of the page
MoreRows == 5

FilterInputs ==
  [title : FilterTitles, rows : FilterPages, more : {0, MoreRows}, raises : BOOLEAN]

\* the positions of the rows that stay on the page
KeptRows(sal_floor, rows) ==
  SelectSeq([i \in 1..Len(rows) |-> i],
            LAMBDA i : index_item(sal_floor, rows[i].rec, rows[i].row).kept)

\* index after the lookups: the post-filter row by row, the demo jobs for a
\* request without title, country and items, and the total reported
IndexFiltered(raw_title, q, rows, total) ==
  [sal_floor |-> q.sal_floor, sal_ceiling |-> q.sal_ceiling,
   rows |-> Len(rows),
   items |-> KeptRows(q.sal_floor, rows),
   demo |-> raw_title = <<>> /\ KeptRows(q.sal_floor, rows) = <<>>,
   total |-> IF raw_title = <<>> /\ KeptRows(q.sal_floor, rows) = <<>>
               THEN DemoJobs ELSE total]

\* index with no country argument: a lookup that raises leaves no rows and
\* the total 0
index_filtered ==
  Returned("index_filtered",
           IndexFiltered(Strip(ev.args.title),
                         Fallback(Strip(ev.args.title), <<>>,
                                  safe_parse_search_params(Strip(ev.args.title), <<>>)),
                         IF ev.args.raises THEN <<>> ELSE ev.args.rows,
                         IF ev.args.raises THEN 0
                         ELSE Len(ev.args.rows) + ev.args.more))

SpecFilter == Given("index_filtered", FilterInputs) /\ [][index_filtered]_vars

\* ------------------------------------------------------------------ C1

\* the history holds a write for the call's key made less than _CACHE_TTL ago
StoredRecently(e, h) == h.key = e.key /\ now - h.at < _CACHE_TTL

\* C1 as stated: a call to Job.count or Job.search is answered from the cache,
\* with no datastore query and with the result of the call that stored it, if
\* and only if an entry for the same lowercased/trimmed key was stored less
\* than 30 seconds earlier; otherwise the lookup misses and the datastore is
\* queried again.
C1_AsStated ==
  [][ev'.kind = "call" =>
       /\ ev'.hit <=> \E h \in stored[ev'.op] : StoredRecently(ev', h)
       /\ ev'.hit => /\ ~ev'.dbq
                     /\ \E h \in stored[ev'.op] : /\ StoredRecently(ev', h)
                                                  /\ ev'.result = Some(h.value)
       /\ ~ev'.hit => ev'.dbq \/ ev'.raised]_vars

\* C1, amended: a call is answered from the cache, with no datastore query and
\* with the result of the call that stored it, if and only if an entry for
\* the same lowercased/trimmed key was stored less than 30 seconds earlier
\* and has not been pruned since; otherwise the lookup misses and the
\* datastore is queried again.
C1_HitIffStoredAndKept ==
  [][ev'.kind = "call" =>
       /\ ev'.hit <=> \E h \in stored[ev'.op] : StoredRecently(ev', h) /\ ~h.evicted
       /\ ev'.hit => /\ ~ev'.dbq
                     /\ \E h \in stored[ev'.op] : /\ StoredRecently(ev', h)
                                          /\ ~h.evicted
                                          /\ ev'.result = Some(h.value)
       /\ ~ev'.hit => ev'.dbq \/ ev'.raised]_vars

\* a call whose key has another spelling was answered from an entry stored
\* one clock step earlier
C1_Witness ==
  /\ ev.kind = "call"
  /\ ev.hit
  /\ \E h \in stored[ev.op] : StoredRecently(ev, h) /\ now - h.at = TickStep
  /\ \E c \in Calls : c[1] = ev.op /\ c[2] # ev.args /\ KeyOf(c[1], c[2]) = ev.key

\* ------------------------------------------------------------------ C2

\* the entries of a cache, as a set
Entries(d) == {d[i] : i \in 1..Len(d)}

\* what a completed insert of `key` may turn the cache `before` into
PrunedOldest(before, after, key) ==
  LET written == {e \in Entries(before) : e.key # key}
                   \cup {e \in Entries(after) : e.key = key}
      removed == written \ Entries(after)
  IN  /\ Len(after) <= _CACHE_MAX
      /\ Entries(after) \subseteq written
      /\ \E e \in Entries(after) : e.key = key /\ e.at = now
      /\ Cardinality(removed) =
           IF Cardinality(written) > _CACHE_MAX
             THEN Cardinality(written) - _CACHE_MAX ELSE 0
      /\ \A r \in removed : \A k \in Entries(after) : r.at <= k.at

\* C2: after every completed cache insert, the clock never going back, each of
\* the two caches holds at most _CACHE_MAX entries, the entries removed are
\* exactly those with the oldest insertion timestamps, and the entry just
\* inserted is still present.
C2_PruneKeepsNewest ==
  [][(ev'.kind = "call" /\ ev'.dbq /\ ev'.done) =>
       /\ now' >= now
       /\ Len(_cache_count') <= _CACHE_MAX
       /\ Len(_cache_search') <= _CACHE_MAX
       /\ IF ev'.op = "count"
            THEN /\ PrunedOldest(_cache_count, _cache_count', ev'.key)
                 /\ _cache_search' = _cache_search
            ELSE /\ PrunedOldest(_cache_search, _cache_search', ev'.key)
                 /\ _cache_count' = _cache_count]_vars

\* an insert into a full cache whose oldest entry was not the first of the
\* dictionary has just removed it
C2_Witness ==
  /\ ev.kind = "call" /\ ev.dbq /\ ev.done
  /\ Len(Target(ev.op)) = _CACHE_MAX
  /\ \E h \in stored[ev.op] :
       /\ h.evicted
       /\ h.at < Target(ev.op)[1].at
       /\ Target(ev.op)[1].key # ev.key

\* ------------------------------------------------------------------ C3

\* spellings of a title and of a country that share cache keys
KeyTitles ==
  {None, Some(<<>>), Some(<<" ">>), Some(<<"D","e","v">>), Some(<<" ","d","e","v"," ">>), Some(<<"D","E","V">>),
   Some(<<"r","e","m","o","t","e"," ","D","e","v">>), Some(<<"R","e","m","o","t","e"," "," ","d","e","v"," ">>)}

KeyCountries ==
  {None, Some(<<>>), Some(<<" ">>), Some(<<"E","U">>), Some(<<" ","e","u">>), Some(<<"d","e">>), Some(<<"D","E"," ">>),
   Some(<<"H","I","G","H","_","P","A","Y">>), Some(<<"h","i","g","h","_","p","a","y"," ">>)}

\* two inputs that share a cache key produce the same WHERE and ORDER BY
KeyDecidesQuery ==
  \A t1 \in KeyTitles, t2 \in KeyTitles, c1 \in KeyCountries, c2 \in KeyCountries :
    CountKey(t1, c1) = CountKey(t2, c2) =>
      /\ _where(t1, c1) = _where(t2, c2)
      /\ _order_by(c1) = _order_by(c2)

\* C3: against an unchanged jobs table every call to Job.count and Job.search
\* returns what the same call returns with the cache disabled, that is the
\* result of its own statement; in particular two inputs that share a cache
\* key produce the same WHERE predicate and ORDER BY.
C3_CacheIsTransparent ==
  /\ (ev.kind = "call" /\ ev.done) => ev.result = Some(Query(jobs, ev.op, ev.args))
  /\ KeyDecidesQuery

\* a call spelled differently from its key was answered from the cache with
\* a result that is not empty
C3_Witness ==
  /\ ev.kind = "call" /\ ev.hit
  /\ ev.args \in {<<Some(<<" ","D","e","v">>), None>>, <<None, Some(<<" ","e","u">>), 2, 0>>}
  /\ ev.result = Some(Query(jobs, ev.op, ev.args))
  /\ IF ev.op = "count" THEN ev.result[1] > 0 ELSE Len(ev.result[1]) > 0

\* ------------------------------------------------------------------ C4

\* C4 as stated: every result Job.count or Job.search returns from the cache
\* was read from the datastore less than 30 seconds before it is returned,
\* also when time passes between the datastore read and the cache write.
C4_AsStated ==
  (ev.kind = "call" /\ ev.hit) =>
    \E h \in stored[ev.op] :
      /\ h.key = ev.key /\ ~h.evicted /\ ev.result = Some(h.value)
      /\ now - h.read < _CACHE_TTL

\* C4, amended: every result Job.count or Job.search returns from the cache
\* was written to the cache less than 30 seconds before it is returned; the
\* datastore read it comes from is older than the write by the time that
\* passed between the two.
C4_FreshSinceWrite ==
  (ev.kind = "call" /\ ev.hit) =>
    \E h \in stored[ev.op] :
      /\ h.key = ev.key /\ ~h.evicted /\ ev.result = Some(h.value)
      /\ now - h.at < _CACHE_TTL
      /\ h.read <= h.at
      /\ now - h.read < _CACHE_TTL + (h.at - h.read)

\* a call was answered from an entry written after its datastore read, with
\* a result the jobs table no longer gives
C4_Witness ==
  /\ ev.kind = "call" /\ ev.hit
  /\ \E h \in stored[ev.op] : h.key = ev.key /\ h.read < h.at
  /\ ev.result # Some(Query(jobs, ev.op, ev.args))

\* ------------------------------------------------------------------ C8

\* the links of the stored jobs
Links(table) == {table[i].link : i \in 1..Len(table)}

\* the stored rows stay as they are; only Job.insert_many adds rows, one for
\* each submitted link that is not stored yet
JobsStep ==
  /\ Len(jobs') >= Len(jobs)
  /\ \A i \in 1..Len(jobs) : jobs'[i] = jobs[i]
  /\ ev'.kind # "insert_many" => jobs' = jobs
  /\ ev'.kind = "insert_many" =>
       /\ Links(jobs') \subseteq
            Links(jobs) \cup {Payload(ev'.args[i]).link : i \in 1..Len(ev'.args)}
       /\ ~ev'.raised =>
            Links(jobs') =
              Links(jobs) \cup {Payload(ev'.args[i]).link : i \in 1..Len(ev'.args)}

\* C8: after any sequence of Job.insert_many calls no two stored jobs have the
\* same link; a submitted row whose link is already stored is skipped and the
\* stored row is left unchanged; Job.count, Job.search and Job.get_link never
\* modify or delete a stored job.
C8_LinksUnique ==
  /\ [](\A i \in 1..Len(jobs) : \A j \in 1..Len(jobs) :
          jobs[i].link = jobs[j].link => i = j)
  /\ [][JobsStep]_vars

\* Job.insert_many has just skipped a submitted row whose link is stored with
\* another title
C8_Witness ==
  /\ ev.kind = "insert_many" /\ ~ev.raised
  /\ \E i \in 1..Len(ev.args) : \E j \in 1..Len(jobs) :
       /\ jobs[j].link = Payload(ev.args[i]).link
       /\ jobs[j].job_title # Payload(ev.args[i]).job_title

\* ------------------------------------------------------------------ C5

AllIdle == \A t \in Threads : pend[t].pc = "idle"

\* every cached key maps to the value and time of the last write to it
LastWriteWins(op, d) ==
  \A i \in 1..Len(d) :
    \E h \in stored[op] : h.key = d[i].key /\ h.value = d[i].value /\ h.at = d[i].at

\* C5 as stated: under any interleaving of concurrent Job.count / Job.search
\* calls that share the two cache dictionaries without locking, no call fails
\* because of the cache, no call returns a value that no datastore query
\* produced for its own key, and once all calls have finished each key maps to
\* the value written by the last write to it, each cache holding at most
\* _CACHE_MAX entries.
C5_AsStated ==
  /\ ev.raised => (ev.kind = "call" /\ ~ev.hit /\ ~ev.dbq)
  /\ (ev.kind \in {"call", "return"} /\ ev.done) =>
       ev.result = Some(Query(jobs, ev.op, ev.args))
  /\ AllIdle =>
       /\ LastWriteWins("count", _cache_count)
       /\ LastWriteWins("search", _cache_search)
       /\ Len(_cache_count) <= _CACHE_MAX
       /\ Len(_cache_search) <= _CACHE_MAX

\* all calls have finished and a cache holds more than _CACHE_MAX entries
C5_Witness ==
  /\ AllIdle
  /\ ev.kind = "return"
  /\ Len(_cache_search) > _CACHE_MAX

\* ------------------------------------------------------------------ C6

\* a request to one of the routes that list jobs has just been answered
Listed ==
  /\ ev.kind = "request"
  /\ resp.route \in {"index", "api_jobs", "api_jobs_summary", "api_salary_insights"}

\* C6 as stated: when the datastore call made by Job.count or Job.search
\* fails, the route answers with an empty result list and a zero count, and
\* the failure does not escape as an unhandled exception.
C6_AsStated ==
  (Listed /\ resp.failed) =>
    /\ resp.code = 200
    /\ ~resp.demo
    /\ resp.rows = <<>>
    /\ resp.total = 0

\* Job.search failed inside /api/salary-insights and the exception reached
\* the error handler
C6_Witness ==
  /\ Listed
  /\ resp.route = "api_salary_insights"
  /\ resp.failed
  /\ resp.code = 500

\* ------------------------------------------------------------------ C7

\* C7 as stated: insert_search_event, and insert_subscribe_event which calls
\* it, return normally for every kind of logging failure, the failure to
\* obtain a database connection included.
C7_AsStated ==
  ev.kind \in {"insert_search_event", "insert_subscribe_event"} => ~ev.raised

\* insert_subscribe_event raised and wrote nothing
C7_Witness ==
  /\ ev.kind = "insert_subscribe_event"
  /\ ev.raised
  /\ ~ev.done

\* ------------------------------------------------------------------ C9

\* the step is a POST /subscribe with a valid address
SubscribeStep == ev'.kind = "request" /\ ev'.op = "subscribe" /\ resp'.request.valid

Has(table, email) == \E i \in 1..Len(table) : table[i] = email

\* the stored link of the job the request names
JobLink(request) == get_link(jobs, Some(request.job_id))

\* where the handler sends the client: the job's link, else a safe `next`
RedirectTarget(request) ==
  IF Truthy(JobLink(request)) THEN JobLink(request)
  ELSE IF request.next # <<>> /\ _is_safe_redirect_target(request.next)
    THEN Some(request.next)
  ELSE None

\* C9 as stated, for JSON requests whose datastore calls succeed: the first
\* request for an address stores it and returns status "ok", every later
\* request for it stores nothing and returns status "duplicate", and the
\* response carries the job's stored link as redirect when the job has one and
\* no redirect when it has none.
C9_AsStated ==
  [][(SubscribeStep /\ resp'.request.is_json /\ ~resp'.failed) =>
       /\ ~Has(subscribers, resp'.request.email) =>
            /\ subscribers' = Append(subscribers, resp'.request.email)
            /\ resp'.status = "ok"
       /\ Has(subscribers, resp'.request.email) =>
            /\ subscribers' = subscribers
            /\ resp'.status = "duplicate"
       /\ resp'.redirect =
            (IF Truthy(JobLink(resp'.request)) THEN JobLink(resp'.request) ELSE None)]_vars

\* the answer to a POST /subscribe whose datastore calls succeeded
SubscribeAnswer(request, had, target, response) ==
  IF request.is_json
    THEN /\ response.code = 200
         /\ response.redirect = target
         /\ response.status =
              (IF ~had THEN "ok" ELSE IF target # None THEN "duplicate" ELSE "")
         /\ response.error = (IF had /\ target = None THEN "duplicate" ELSE "")
    ELSE /\ response.code = 302
         /\ response.location = (IF target # None THEN target ELSE Some(<<"/">>))
         /\ response.flash = "success"

\* C9, amended: every address is stored at most once; a POST /subscribe with
\* a valid address whose datastore calls succeed stores the address exactly
\* when it was not stored, and a JSON request is answered with status "ok" the
\* first time and later with status "duplicate" when there is a redirect
\* target and with the body error "duplicate" (no status) when there is none;
\* the redirect is the job's stored link when it has one, else the request's
\* `next` when that is a safe target, else absent; when a datastore call fails
\* nothing is stored and the answer is an error.
C9_StoredOnce ==
  /\ [](\A i \in 1..Len(subscribers) : \A j \in 1..Len(subscribers) :
          subscribers[i] = subscribers[j] => i = j)
  /\ [][SubscribeStep =>
          IF resp'.failed
            THEN /\ subscribers' = subscribers
                 /\ resp'.code \in {500, 302}
                 /\ resp'.status = ""
                 /\ resp'.code = 302 => resp'.flash = "error"
            ELSE /\ subscribers' =
                      (IF Has(subscribers, resp'.request.email) THEN subscribers
                       ELSE Append(subscribers, resp'.request.email))
                 /\ SubscribeAnswer(resp'.request, Has(subscribers, resp'.request.email),
                                    RedirectTarget(resp'.request), resp')]_vars

\* a JSON request for a stored address and a job without a link was answered
\* with error "duplicate"
C9_Witness ==
  /\ ev.kind = "request" /\ ev.op = "subscribe"
  /\ resp.request.is_json /\ ~resp.failed
  /\ resp.error = "duplicate"
  /\ Len(jobs) > 1
  /\ Has(subscribers, resp.request.email)

\* ------------------------------------------------------------------ C10

\* log_events gained exactly one row, of this type
LoggedOne(type) ==
  /\ Len(log_events') = Len(log_events) + 1
  /\ SubSeq(log_events', 1, Len(log_events)) = log_events
  /\ log_events'[Len(log_events')].event_type = type

\* C10 as stated: a filtered index search that returns database rows appends
\* a "search" row to log_events, an accepted POST /subscribe a "subscribe" row
\* with status ok or duplicate, an accepted POST /events/apply an "apply" row
\* carrying the payload's status, job title and job summary; an unfiltered
\* index request on an empty database, answered with the demo jobs, appends
\* nothing.
C10_AsStated ==
  [][ev'.kind = "request" =>
       /\ (ev'.op = "index" /\ resp'.request # <<>> /\ resp'.rows # <<>>) =>
            LoggedOne(<<"s","e","a","r","c","h">>)
       /\ (ev'.op = "subscribe" /\ resp'.code = 200) =>
            /\ LoggedOne(<<"s","u","b","s","c","r","i","b","e">>)
            /\ log_events'[Len(log_events')].event_status \in {<<"o","k">>, <<"d","u","p","l","i","c","a","t","e">>}
       /\ (ev'.op = "events_apply" /\ resp'.code = 200) =>
            /\ LoggedOne(<<"a","p","p","l","y">>)
            /\ log_events'[Len(log_events')].event_status = resp'.request.status
            /\ log_events'[Len(log_events')].job_title_event = resp'.request.job_title
            /\ log_events'[Len(log_events')].job_summary_event = resp'.request.job_summary
       /\ (ev'.op = "index" /\ resp'.demo /\ jobs = <<>>) =>
            log_events' = log_events]_vars

\* a filtered index search has returned database rows and log_events is empty
C10_Witness ==
  /\ ev.kind = "request" /\ ev.op = "index"
  /\ resp.request # <<>> /\ resp.rows # <<>> /\ ~resp.failed
  /\ log_events = <<>>

\* ------------------------------------------------------------------ C11

\* a page or payload that shows job links has just been answered
LinksShown ==
  /\ ev.kind = "request"
  /\ resp.route \in {"index", "api_jobs", "api_salary_insights", "job_detail"}
  /\ resp.code = 200

\* C11 as stated: every route that returns job links returns a stored job
\* whose link is in BLACKLIST_LINKS with a null link, never with the
\* blacklisted URL.
C11_AsStated ==
  LinksShown =>
    \A i \in 1..Len(resp.links) :
      resp.rows[i].link \in BLACKLIST_LINKS => resp.links[i] = None

\* /api/salary-insights has answered with an item that carries a
\* blacklisted URL
C11_Witness ==
  /\ LinksShown
  /\ resp.route = "api_salary_insights"
  /\ \E i \in 1..Len(resp.links) :
       /\ resp.rows[i].link \in BLACKLIST_LINKS
       /\ resp.links[i] = Some(resp.rows[i].link)


\* ------------------------------------------------------------------ C12

\* the codes of COUNTRY_NORM
Codes == {COUNTRY_NORM[i][2] : i \in 1..Len(COUNTRY_NORM)}

CountryDone == ev.kind = "output" /\ ev.op = "normalize_country"

\* C12 as stated: every alias returns its table code regardless of case and
\* whitespace padding, every 2-letter alphabetic input not in the table
\* returns the uppercased token, and every result is a code of the table, an
\* uppercased 2-letter token, or the trimmed original string.
C12_AsStated ==
  CountryDone =>
    /\ \A i \in 1..Len(COUNTRY_NORM) :
         Lower(Strip(ev.args)) = Lower(COUNTRY_NORM[i][1])
           => ev.result = Some(COUNTRY_NORM[i][2])
    /\ (/\ Len(Strip(ev.args)) = 2
        /\ IsAlpha(Strip(ev.args))
        /\ Lower(Strip(ev.args)) \notin Aliases)
         => ev.result = Some(Upper(Strip(ev.args)))
    /\ \/ ev.result[1] \in Codes
       \/ Len(ev.result[1]) = 2 /\ IsAlpha(ev.result[1]) /\ ev.result[1] = Upper(ev.result[1])
       \/ ev.result = Some(Strip(ev.args))

\* an alias of the table, spelled as the table spells it, came back unchanged
C12_Witness ==
  /\ CountryDone
  /\ ev.args \in Aliases
  /\ ev.result = Some(ev.args)
  /\ ev.args \notin Codes
  /\ Len(ev.args) > 2


\* ------------------------------------------------------------------ C13

TitleDone == ev.kind = "output" /\ ev.op = "normalize_title"

\* C13 as stated: normalize_title is idempotent, for every input:
\* normalize_title(normalize_title(x)) = normalize_title(x).
C13_AsStated == TitleDone => normalize_title(ev.result[1]) = ev.result[1]

\* a synonym key was normalised to text that normalize_title changes again
C13_Witness ==
  /\ TitleDone
  /\ \E i \in 1..Len(TITLE_SYNONYMS) : ev.args = TITLE_SYNONYMS[i][1]
  /\ Len(normalize_title(ev.result[1])) > Len(ev.result[1])

\* ------------------------------------------------------------------ C14

SalaryDone == ev.kind = "output" /\ ev.op = "parse_salary_query"

\* the amount a matched number spells: its digits, times 1000 with a "k"
AmountOf(raw) ==
  DigitsValue(SelectSeq(raw, IsDigit))
    * (IF raw[Len(raw)] \in {"k", "K"} THEN 1000 ELSE 1)

\* what the one applied pattern yields: the text without the matched
\* substring, and the bounds the pattern sets
Applied(s, m, floor, ceiling) ==
  <<Cleaned(s, m),
    IF floor THEN Some(AmountOf(Group(s, m.g1))) ELSE None,
    IF ceiling
      THEN Some(AmountOf(Group(s, IF floor THEN m.g2 ELSE m.g1))) ELSE None>>

\* the result for the trimmed text s
Expected(s) ==
  IF range_match(s) # None THEN Applied(s, range_match(s)[1], TRUE, TRUE)
  ELSE IF greater_match(s) # None THEN Applied(s, greater_match(s)[1], TRUE, FALSE)
  ELSE IF less_match(s) # None THEN Applied(s, less_match(s)[1], FALSE, TRUE)
  ELSE IF single_match(s) # None THEN Applied(s, single_match(s)[1], TRUE, FALSE)
  ELSE <<s, None, None>>

\* C14: parse_salary_query applies exactly one pattern, the first that
\* occurs in the text in the order range, lower bound, upper bound, bare
\* number: a range sets floor and ceiling, a lower bound or a bare number
\* only the floor, an upper bound only the ceiling, a "k" multiplies by
\* 1000, the cleaned text is the input without the matched substring,
\* trimmed, and a text without a number comes back with no bounds.
C14_AsStated ==
  SalaryDone =>
    /\ ev.result[1] = Expected(Strip(ev.args))
    /\ (\A i \in 1..Len(ev.args) : ~IsDigit(ev.args[i]))
         => ev.result[1] = <<Strip(ev.args), None, None>>

\* "80k-120k senior dev" has been parsed into ("senior dev", 80000, 120000)
C14_Witness ==
  /\ SalaryDone
  /\ ev.args = <<"8","0","k","-","1","2","0","k"," ","s","e","n","i","o","r"," ","d","e","v">>
  /\ ev.result[1] = <<<<"s","e","n","i","o","r"," ","d","e","v">>, Some(80000), Some(120000)>>

\* ------------------------------------------------------------------ C15

WhereDone == ev.kind = "output" /\ ev.op = "_where"

\* the names that stand for Germany: the aliases of COUNTRY_NORM and the
\* places of LOCATION_COUNTRY_HINTS that map to "DE"
GermanNames ==
  Range(CountryAliases(<<"D","E">>))
    \cup {CountryHints(<<"D","E">>)[i][1] : i \in 1..Len(CountryHints(<<"D","E">>))}

\* text that is the code "de" or holds one of the German names
German(text) ==
  \/ Lower(text) = <<"d","e">>
  \/ \E name \in GermanNames : Contains(Lower(text), name)

AnyGerman(row) ==
  German(row.location) \/ German(row.city) \/ German(row.region) \/ German(row.country)

ForGermany == ev.args.title = None /\ Upper(Strip(OrEmpty(ev.args.country))) = <<"D","E">>

\* C15: the predicate for country code "DE" matches every row whose country
\* is "Germany" and every row whose city is "Berlin", also with an empty
\* location, and does not match a row whose country is "FR" and that holds
\* no German city or alias in location, city, region or country; the
\* free-text country "Hamburg" matches a row whose city is "Hamburg".
C15_AsStated ==
  WhereDone =>
    /\ (ForGermany /\ ev.args.row.country = <<"G","e","r","m","a","n","y">>) => ev.result[1]
    /\ (ForGermany /\ ev.args.row.city = <<"B","e","r","l","i","n">>) => ev.result[1]
    /\ (ForGermany /\ ev.args.row.country = <<"F","R">> /\ ~AnyGerman(ev.args.row))
         => ~ev.result[1]
    /\ (/\ ev.args.title = None
        /\ ev.args.country = Some(<<"H","a","m","b","u","r","g">>)
        /\ ev.args.row.city = <<"H","a","m","b","u","r","g">>) => ev.result[1]

\* the "DE" predicate has been executed against a row of Berlin with an
\* empty location and no country, and it matched
C15_Witness ==
  /\ WhereDone
  /\ ev.args.country = Some(<<"D","E">>)
  /\ ev.args.row = FixtureRow(<<"E","n","g","i","n","e","e","r">>, <<>>, <<>>, <<"B","e","r","l","i","n">>, <<>>, <<>>)
  /\ ev.result[1]

\* ------------------------------------------------------------------ C16

HasLikeCharacter(text) == \E i \in 1..Len(text) : text[i] \in {"%", "_", "\\"}

\* some column of the row holds the text, whatever the case
Holds(row, columns, text) == \E c \in columns : Contains(Lower(row[c]), Lower(text))

\* C16: a title or a free-text country (the group token HIGH_PAY is not
\* one) with '%', '_' or '\' selects exactly
\* the rows that hold the value literally (in one of the title columns, in
\* one of the location columns): no character of it acts as a wildcard.
C16_LiteralOnly ==
  WhereDone =>
    /\ (ev.args.title # None /\ HasLikeCharacter(ev.args.title[1]))
         => (ev.result[1]
               <=> Holds(ev.args.row, {"job_title_norm", "job_title", "job_description"},
                         Strip(ev.args.title[1])))
    /\ (/\ ev.args.country # None
        /\ HasLikeCharacter(ev.args.country[1])
        /\ Upper(Strip(ev.args.country[1])) # <<"H","I","G","H","_","P","A","Y">>)
         => (ev.result[1]
               <=> Holds(ev.args.row, {"location", "city", "region", "country"},
                         Strip(ev.args.country[1])))

\* the title "a_b" has been tried on a row titled "axb", and did not match
C16_Witness ==
  /\ WhereDone
  /\ ev.args.title = Some(<<"a","_","b">>)
  /\ ev.args.row.job_title = <<"a","x","b">>
  /\ ~ev.result[1]

\* ------------------------------------------------------------------ C17

IndexDone == ev.kind = "output" /\ ev.op = "estimate" /\ ev.result[1].route = "index"

DetailDone == ev.kind = "output" /\ ev.op = "estimate" /\ ev.result[1].route = "job_detail"

\* the basis of an item: the high end of its estimated range when it has
\* one, otherwise its median
ItemBasis(item) ==
  IF item.estimated_salary_range_numeric # None
    THEN Some(item.estimated_salary_range_numeric[1][2])
    ELSE item.median_salary

\* C17: with a salary floor of 100000 or more, index keeps a row if and
\* only if its basis is at least the floor: a basis equal to the floor
\* keeps the row, a row with no salary signal is dropped.
C17_KeptIffBasis ==
  (IndexDone /\ ev.args.sal_floor # None /\ ev.args.sal_floor[1] >= 100000)
    => (ev.result[1].item.kept
          <=> /\ ItemBasis(ev.result[1].item) # None
              /\ ItemBasis(ev.result[1].item)[1] >= ev.args.sal_floor[1])

\* a row whose estimated range ends at 100000 has been kept under the
\* floor 100000
C17_Witness ==
  /\ IndexDone
  /\ ev.args.sal_floor = Some(100000)
  /\ ev.result[1].item.estimated_salary_range_numeric = Some(<<60000, 100000>>)
  /\ ev.result[1].item.kept

\* ------------------------------------------------------------------ C18

HasBucket2(title) ==
  \E k \in Range(TITLE_BUCKET2_KEYWORDS) : Contains(Lower(title), k)

HasBucket1(title) ==
  \E k \in Range(TITLE_BUCKET1_KEYWORDS) : Contains(Lower(title), k)

\* the factor claimed for a title, in hundredths
ClaimedFactor(title) ==
  IF HasBucket2(title) THEN 110 ELSE IF HasBucket1(title) THEN 105 ELSE 100

\* the whole part of a bound of the base range plus m * (factor - 1)
Shifted(bound, m, factor) == Whole(bound * Hundredths + m * (factor - 100))

\* C18: for a median m > 0 the uplift factor is 1.10 for a title with a
\* bucket-2 keyword (also with a bucket-1 keyword beside it), else 1.05 for
\* a title with a bucket-1 keyword, else 1.0; the numeric range is the
\* rounded base range with m * (factor - 1) added to both bounds and not
\* rounded to the grid again; the factor is reported only when above 1.0.
C18_Uplift ==
  (IndexDone /\ ev.args.rec # None /\ ev.args.rec[1][1] > 0)
    => /\ ev.result[1].item.salary_uplift_factor
            = (IF ClaimedFactor(ev.result[1].item.title) > 100
                 THEN Some(ClaimedFactor(ev.result[1].item.title)) ELSE None)
       /\ ev.result[1].item.estimated_salary_range_numeric
            = Some(<<Shifted(salary_range_around(ev.args.rec[1][1])[1], ev.args.rec[1][1],
                             ClaimedFactor(ev.result[1].item.title)),
                     Shifted(salary_range_around(ev.args.rec[1][1])[2], ev.args.rec[1][1],
                             ClaimedFactor(ev.result[1].item.title))>>)

\* the median 100000 with the title "Senior Engineer" has given the factor
\* 1.05 and the range (85000, 125000)
C18_Witness ==
  /\ IndexDone
  /\ ev.args.rec = Some(<<100000, "EUR">>)
  /\ ev.args.row.job_title = <<"S","e","n","i","o","r"," ","E","n","g","i","n","e","e","r">>
  /\ ev.result[1].item.salary_uplift_factor = Some(105)
  /\ ev.result[1].item.estimated_salary_range_numeric = Some(<<85000, 125000>>)

\* ------------------------------------------------------------------ C19

\* C19: a median of 0 or below is "no salary data": index and job_detail
\* produce no estimated range and no display string for it.
C19_AsStated ==
  /\ (IndexDone /\ ev.args.rec # None /\ ev.args.rec[1][1] <= 0)
       => /\ ev.result[1].item.estimated_salary_range_numeric = None
          /\ ev.result[1].item.estimated_salary_range_compact = None
  /\ (DetailDone /\ ev.args.rec # None /\ ev.args.rec[1][1] <= 0)
       => /\ ev.result[1].item.estimated_display = None
          /\ ev.result[1].item.salary_min = None
          /\ ev.result[1].item.salary_max = None

\* index has estimated a row whose median is 0
C19_Witness ==
  /\ IndexDone
  /\ ev.args.rec = Some(<<0, "EUR">>)

\* ------------------------------------------------------------------ C20

LookupDone == ev.kind = "output" /\ ev.op = "get_salary_for_location"

\* the usable rows of which a column equals one of the candidates
ExactTier(table, column, candidates) ==
  {row \in table :
     /\ row.median_salary # None
     /\ \E c \in Range(candidates) : Lower(row[column]) = Lower(c)}

\* the usable rows that hold the location as a substring
FuzzyTier(table, loc) ==
  {row \in table :
     /\ row.median_salary # None
     /\ \/ Contains(Lower(row.location), Lower(loc))
        \/ Contains(Lower(row.city), Lower(loc))
        \/ Contains(Lower(row.region), Lower(loc))}

\* the most specific tier that has a match
TopTier(table, loc) ==
  IF loc = <<>> THEN {}
  ELSE IF ExactTier(table, "city", Candidates(loc)) # {}
    THEN ExactTier(table, "city", Candidates(loc))
  ELSE IF ExactTier(table, "region", Candidates(loc)) # {}
    THEN ExactTier(table, "region", Candidates(loc))
  ELSE IF ExactTier(table, "country", Candidates(loc)) # {}
    THEN ExactTier(table, "country", Candidates(loc))
  ELSE FuzzyTier(table, loc)

FromTier(value, tier) ==
  value # None /\ \E row \in tier : value[1] = SalaryRecord(row)

\* C20: get_salary_for_location returns at most one (median, currency)
\* record, taken from the most specific tier that has a match over all
\* candidates of the location, in the order city, region, country, fuzzy
\* substring; with no match, or when a query fails, it returns None.
C20_AsStated ==
  LookupDone =>
    /\ ev.args.failing = 0 =>
         IF TopTier(ev.args.table, Strip(ev.args.location)) = {}
           THEN ev.result[1] = None
           ELSE FromTier(ev.result[1], TopTier(ev.args.table, Strip(ev.args.location)))
    /\ (ev.args.failing = 1 /\ Strip(ev.args.location) # <<>>) => ev.result[1] = None
    /\ ev.args.failing > 1 =>
         \/ ev.result[1] = None
         \/ FromTier(ev.result[1], TopTier(ev.args.table, Strip(ev.args.location)))

\* a lookup of "Munich / DE" found no usable city or region row and has
\* returned the record of a country row
C20_Witness ==
  /\ LookupDone
  /\ ev.args.location = <<"M","u","n","i","c","h"," ","/"," ","D","E">>
  /\ ev.args.table = SalaryPool
  /\ ev.args.failing = 0
  /\ ev.result[1] = Some(<<70000, None>>)

\* ------------------------------------------------------------------ C21
SqlDone == ev.kind = "output" /\ ev.op = "_where_sql"

\* the number of pieces of a text equal to a placeholder
CountPiece(sql, mark) == Cardinality({i \in 1..Len(sql) : sql[i] = mark})

\* the sqlite text read as pg: "?" for "%s", and the one operator that
\* differs (job_title_norm LIKE for ILIKE, the same comparison)
AsPg(sql) ==
  [i \in 1..Len(sql) |->
     IF sql[i] = "?" THEN "%s"
     ELSE IF sql[i] = "job_title_norm LIKE " THEN "job_title_norm ILIKE "
     ELSE sql[i]]

\* the pieces a predicate is written with: keywords, columns, placeholders
SqlWords ==
  {"WHERE ", " AND ", " OR ", "(", ")", ", ", "%s", "?", " ESCAPE '\\'",
   "job_title_norm ILIKE ", "job_title_norm LIKE ", "LOWER(job_title) LIKE ",
   "LOWER(job_description) LIKE ", "LOWER(location) LIKE ",
   "LOWER(COALESCE(", ", '')) IN (", ", '')) = ", ", '')) LIKE ",
   "location", "city", "region", "country"}

\* the values of the comparisons of the predicate, in the order of the
\* comparisons
LeafParams(title, country) == ParamsOf(_where(title, country).clauses)

\* C21: for every (title, country), the pg and the sqlite predicate have
\* the same AND/OR structure over the same columns, the two parameter
\* lists are identical, each dialect has as many placeholders as
\* parameters, in the order of the comparisons, and the SQL text is made
\* of fixed pieces only: user text is in the parameter lists alone.
C21_Dialects ==
  SqlDone =>
    /\ AsPg(ev.result[1].sqlite) = ev.result[1].pg
    /\ CountPiece(ev.result[1].sqlite, "%s") = 0
    /\ CountPiece(ev.result[1].pg, "?") = 0
    /\ ev.result[1].params_pg = ev.result[1].params_sqlite
    /\ CountPiece(ev.result[1].pg, "%s") = Len(ev.result[1].params_pg)
    /\ CountPiece(ev.result[1].sqlite, "?") = Len(ev.result[1].params_sqlite)
    /\ ev.result[1].params_pg = LeafParams(ev.args.title, ev.args.country)
    /\ \A i \in 1..Len(ev.result[1].pg) : ev.result[1].pg[i] \in SqlWords
    /\ \A i \in 1..Len(ev.result[1].sqlite) : ev.result[1].sqlite[i] \in SqlWords

\* a title with a core phrase, "remote" and "developer" and a country
\* group: four clauses, and user text with a placeholder in it elsewhere
C21_Witness ==
  /\ SqlDone
  /\ ev.args.title = Some(<<" ","S","e","n","i","o","r"," ","R","e","m","o","t","e"," ","D","e","v","e","l","o","p","e","r">>)
  /\ ev.args.country = Some(<<"E","U">>)
  /\ Len(ev.result[1].params_pg) > 30
  /\ CountPiece(ev.result[1].pg, " AND ") = 3

\* ------------------------------------------------------------------ C22

TitleTokens == Split(_normalize_title(ev.args.title))

CoreGroup ==
  CoreQuery(TitleTokens) # <<>>
    => Holds(ev.args.row, {"job_title_norm", "job_title", "job_description"},
             CoreQuery(TitleTokens))

RemoteGroup ==
  HasToken(TitleTokens, <<"r","e","m","o","t","e">>)
    => Holds(ev.args.row, {"job_title_norm", "job_title", "job_description", "location"},
             <<"r","e","m","o","t","e">>)

DeveloperGroup ==
  HasToken(TitleTokens, <<"d","e","v","e","l","o","p","e","r">>)
    => \E i \in 1..Len(dev_terms) :
         Holds(ev.args.row, {"job_title_norm", "job_title"}, dev_terms[i])

TitleOnly ==
  /\ WhereDone
  /\ ev.args.country = None
  /\ Truthy(ev.args.title)
  /\ _normalize_title(ev.args.title) # <<>>

\* C22: for a non-blank title, a row satisfies the title predicate iff it
\* satisfies every group that is present: the core phrase in
\* normalized-title, title or description; "remote" in normalized-title,
\* title, description or location; one of the developer terms in
\* normalized-title or title only.
C22_AsStated ==
  TitleOnly => (ev.result[1] <=> (CoreGroup /\ RemoteGroup /\ DeveloperGroup))

\* the title "developer" has been tried on a row titled "Data Analyst"
\* whose description alone holds "programmer", and the row matched
C22_Witness ==
  /\ TitleOnly
  /\ ev.args.title = Some(<<"d","e","v","e","l","o","p","e","r">>)
  /\ ev.args.row.job_title = <<"D","a","t","a"," ","A","n","a","l","y","s","t">>
  /\ ev.args.row.job_description = <<"W","e"," ","n","e","e","d"," ","a"," ","p","r","o","g","r","a","m","m","e","r">>
  /\ ev.result[1]

\* ------------------------------------------------------------------ C23

HighPayNames ==
  {<<"s","a","n"," ","f","r","a","n","c","i","s","c","o">>, <<"n","e","w"," ","y","o","r","k">>, <<"z","u","r","i","c","h">>, <<"b","e","r","l","i","n">>, <<"p","a","r","i","s">>, <<"m","a","d","r","i","d">>, <<"l","o","n","d","o","n">>}

EuMembers ==
  {<<"a","t">>, <<"b","e">>, <<"b","g">>, <<"h","r">>, <<"c","y">>, <<"c","z">>, <<"d","k">>, <<"e","e">>, <<"f","i">>, <<"f","r">>, <<"d","e">>,
   <<"g","r">>, <<"h","u">>, <<"i","e">>, <<"i","t">>, <<"l","v">>, <<"l","t">>, <<"l","u">>, <<"m","t">>, <<"n","l">>, <<"p","l">>, <<"p","t">>,
   <<"r","o">>, <<"s","k">>, <<"s","i">>, <<"e","s">>, <<"s","e">>}

EuCityNames == {<<"m","a","d","r","i","d">>, <<"p","a","r","i","s">>, <<"b","e","r","l","i","n">>, <<"b","a","r","c","e","l","o","n","a">>, <<"m","i","l","a","n">>, <<"m","i","l","a","n","o">>}

GroupOnly(token) ==
  /\ WhereDone
  /\ ev.args.title = None
  /\ Upper(Strip(OrEmpty(ev.args.country))) = token

\* C23: the group tokens match on exact, case-insensitive field equality
\* only: "HIGH_PAY" matches a row iff its city is one of the seven high-pay
\* hubs; "EU" matches a row iff its country is one of the 27 member codes or
\* its city is one of the six EU hubs; location and region do not count.
C23_Groups ==
  /\ Cardinality(EuMembers) = 27
  /\ GroupOnly(<<"H","I","G","H","_","P","A","Y">>) => (ev.result[1] <=> Lower(ev.args.row.city) \in HighPayNames)
  /\ GroupOnly(<<"E","U">>)
       => (ev.result[1] <=> \/ Lower(ev.args.row.country) \in EuMembers
                            \/ Lower(ev.args.row.city) \in EuCityNames)

\* "HIGH_PAY" has been tried on a row of the city "LONDON" and matched; the
\* row's location and region are set
C23_Witness ==
  /\ GroupOnly(<<"H","I","G","H","_","P","A","Y">>)
  /\ ev.args.row.city = <<"L","O","N","D","O","N">>
  /\ ev.args.row.location = <<"B","e","r","l","i","n",","," ","D","E">>
  /\ ev.args.row.region = <<"P","a","r","i","s">>
  /\ ev.result[1]

\* ------------------------------------------------------------------ C24

PagesDone == ev.kind = "output" /\ ev.op = "search"

GroupOf(country) == Upper(Strip(OrEmpty(country)))

\* the hubs of a group, first priority first
HubsOf(group) ==
  IF group = <<"E","U">>
    THEN <<<<"m","a","d","r","i","d">>, <<"p","a","r","i","s">>, <<"b","e","r","l","i","n">>, <<"b","a","r","c","e","l","o","n","a">>, <<"m","i","l","a","n">>, <<"m","i","l","a","n","o">>>>
  ELSE IF group = <<"H","I","G","H","_","P","A","Y">>
    THEN <<<<"s","a","n"," ","f","r","a","n","c","i","s","c","o">>, <<"n","e","w"," ","y","o","r","k">>, <<"z","u","r","i","c","h">>, <<"b","e","r","l","i","n">>, <<"p","a","r","i","s">>, <<"m","a","d","r","i","d">>,
           <<"l","o","n","d","o","n">>>>
  ELSE <<>>

\* the place of the first hub the row is located in; past the hubs if none
HubRank(row, hubs) ==
  IF \E i \in 1..Len(hubs) : Contains(Lower(row.location), hubs[i])
    THEN CHOOSE i \in 1..Len(hubs) :
           /\ Contains(Lower(row.location), hubs[i])
           /\ \A j \in 1..(i - 1) : ~Contains(Lower(row.location), hubs[j])
    ELSE Len(hubs) + 1

\* hub priority, then dated before undated, then date descending, then id
\* descending
InOrder(a, b, hubs) ==
  \/ HubRank(a, hubs) < HubRank(b, hubs)
  \/ /\ HubRank(a, hubs) = HubRank(b, hubs)
     /\ \/ a.date # None /\ b.date = None
        \/ /\ a.date # None
           /\ b.date # None
           /\ LexLess(b.date[1], a.date[1])
        \/ a.date = b.date /\ a.id > b.id

IdsOf(rows) == {rows[i].id : i \in 1..Len(rows)}

MatchingIds(table, country) ==
  {table[i].id : i \in {j \in 1..Len(table) : WhereHolds(table[j], _where(None, country))}}

\* C24: Job.search returns the matching rows in a total order: hub priority
\* for "EU" and "HIGH_PAY", then dated rows before undated rows, date
\* descending, id descending; pages taken with offsets 0, L, 2L, ... are
\* disjoint and their concatenation is the full ordered result.
C24_TotalOrder ==
  PagesDone =>
    /\ \A i, j \in 1..Len(ev.result[1].full) :
         i < j => InOrder(ev.result[1].full[i], ev.result[1].full[j],
                          HubsOf(GroupOf(ev.args.country)))
    /\ IdsOf(ev.result[1].full) = MatchingIds(ev.args.table, ev.args.country)
    /\ Cardinality(IdsOf(ev.result[1].full)) = Len(ev.result[1].full)
    /\ Flatten(ev.result[1].pages) = ev.result[1].full
    /\ \A p \in 1..Len(ev.result[1].pages) : Len(ev.result[1].pages[p]) <= ev.args.limit
    /\ \A p, q \in 1..Len(ev.result[1].pages) :
         p # q => IdsOf(ev.result[1].pages[p]) \cap IdsOf(ev.result[1].pages[q]) = {}

\* the "EU" rows of the whole pool read two by two: Madrid, then the two
\* Paris rows, then Berlin, then the rows of no hub, dated before undated
C24_Witness ==
  /\ PagesDone
  /\ ev.args.country = Some(<<"E","U">>)
  /\ ev.args.limit = 2
  /\ Len(ev.args.table) = Len(StoredPool)
  /\ [i \in 1..Len(ev.result[1].full) |-> ev.result[1].full[i].id] = <<4, 1, 2, 3, 7, 6>>
  /\ Len(ev.result[1].pages[3]) = 2

\* ------------------------------------------------------------------ C25

RangeDone == ev.kind = "output" /\ ev.op = "salary_range_around"

\* the whole thousands of p% of m, cut off and rounded up
ThousandsDown(m, p) == (m * p) \div 100000

ThousandsUp(m, p) == ((m * p) + 99999) \div 100000

\* C25: for every whole median m with 0.8 m >= 1000, low is the thousands
\* of 0.8 m rounded down to a multiple of 10 and low <= 0.8 m, high is the
\* thousands of 1.2 m rounded up to a multiple of 10 and high >= 1.2 m, and
\* low <= high.
C25_AsStated ==
  (RangeDone /\ ev.args * 80 >= 1000 * 100) =>
    /\ ev.result[1][1] = (ThousandsDown(ev.args, 80) \div 10) * 10 * 1000
    /\ ev.result[1][1] * 100 <= ev.args * 80
    /\ ev.result[1][2] = ((ThousandsUp(ev.args, 120) + 9) \div 10) * 10 * 1000
    /\ ev.result[1][2] * 100 >= ev.args * 120
    /\ ev.result[1][1] <= ev.result[1][2]

\* the median 16667 (1.2 m = 20000.4) has been given the upper bound 20000
C25_Witness ==
  /\ RangeDone
  /\ ev.args = 16667
  /\ ev.result[1][2] = 20000
  /\ ev.result[1][2] * 100 < ev.args * 120

\* ------------------------------------------------------------------ C26

CompactDone == ev.kind = "output" /\ ev.op = "_compact_salary_number"

IsNumber(text) == text # <<>> /\ \A i \in 1..Len(text) : text[i] \in Range(Digits)

\* the text without its last character
Front(text) == SubSeq(text, 1, Len(text) - 1)

Last(text) == text[Len(text)]

\* "{n}k": the n, or -1 if the text is not of this form
ThousandsOf(text) ==
  IF Len(text) >= 2 /\ Last(text) = "k" /\ IsNumber(Front(text))
    THEN DigitsValue(Front(text)) ELSE -1

\* "{n}M" or "{n.n}M": the tenths of a million, or -1; "2.0M" is not of
\* this form
TenthsOf(text) ==
  IF Len(text) >= 2 /\ Last(text) = "M" /\ IsNumber(Front(text))
    THEN DigitsValue(Front(text)) * 10
  ELSE IF /\ Len(text) >= 4
          /\ Last(text) = "M"
          /\ text[Len(text) - 2] = "."
          /\ IsNumber(SubSeq(text, 1, Len(text) - 3))
          /\ text[Len(text) - 1] \in Range(Digits) \ {"0"}
    THEN DigitsValue(SubSeq(text, 1, Len(text) - 3)) * 10
           + DigitsValue(<<text[Len(text) - 1]>>)
  ELSE -1

\* the amount a rendering stands for
Magnitude(text) ==
  IF IsNumber(text) THEN DigitsValue(text)
  ELSE IF ThousandsOf(text) >= 0 THEN ThousandsOf(text) * 1000
  ELSE TenthsOf(text) * 100000

\* the next larger of the values rendered
Following(v) == CHOOSE w \in CompactValues : w > v /\ \A u \in CompactValues : u > v => w <= u

\* C26: a whole v < 1000 is rendered as the plain integer; 1000 <= v <
\* 1,000,000 as "{n}k", n a multiple of 10 nearest to the thousands of v
\* and n < 1000; v >= 1,000,000 as "{n}M" or "{n.n}M", the tenth of a
\* million nearest to v; and the magnitude rendered never decreases when v
\* increases.
C26_AsStated ==
  CompactDone =>
    /\ ev.args < 1000 => ev.result[1] = Str(ev.args)
    /\ (1000 <= ev.args /\ ev.args < 1000000)
         => /\ ThousandsOf(ev.result[1]) >= 0
            /\ ThousandsOf(ev.result[1]) % 10 = 0
            /\ ThousandsOf(ev.result[1]) < 1000
            /\ ThousandsOf(ev.result[1]) * 1000 - ev.args <= 5500
            /\ ev.args - ThousandsOf(ev.result[1]) * 1000 <= 5500
    /\ ev.args >= 1000000
         => /\ TenthsOf(ev.result[1]) >= 0
            /\ TenthsOf(ev.result[1]) * 100000 - ev.args <= 50000
            /\ ev.args - TenthsOf(ev.result[1]) * 100000 <= 50000
    /\ ev.args < MaxCompact
         => Magnitude(ev.result[1])
              <= Magnitude(_compact_salary_number(Following(ev.args) * Hundredths))

\* 996,000 has been rendered as "1000k"
C26_Witness ==
  /\ CompactDone
  /\ ev.args = 996000
  /\ ev.result[1] = <<"1","0","0","0","k">>

\* ------------------------------------------------------------------ C27

\* C27: a call of Job.count or Job.search whose datastore query raises
\* leaves both cache dictionaries exactly as they were: no entry is added,
\* refreshed or evicted.
C27_FailureKeepsCaches ==
  [][(ev'.kind = "call" /\ ev'.raised)
       => (_cache_count' = _cache_count /\ _cache_search' = _cache_search)]_vars

\* Job.count has raised for a key whose expired entry is still in the
\* cache, with the time of the successful call
C27_Witness ==
  /\ ev.kind = "call"
  /\ ev.op = "count"
  /\ ev.raised
  /\ \E i \in 1..Len(_cache_count) :
       /\ _cache_count[i].key = ev.key
       /\ now - _cache_count[i].at >= _CACHE_TTL

\* ------------------------------------------------------------------ C28

PaginateDone == ev.kind = "output" /\ ev.op = "paginate"

\* a request with per_page in 1..100
PerPageGiven ==
  /\ PaginateDone
  /\ ev.args.per_page # None
  /\ ev.args.per_page[1] \in 1..100

\* C28: for every per_page in 1..100 and every total, the pages reported
\* times the rows fetched per page (the LIMIT of the query) cover the
\* total, and has_next is reported as long as rows remain after the page:
\* following has_next from page 1 visits every matching row.
C28_AsStated ==
  PerPageGiven =>
    /\ ev.result[1].limit = ev.args.per_page[1]
    /\ ev.result[1].pages * ev.result[1].limit >= ev.result[1].total
    /\ (ev.result[1].offset + ev.result[1].limit < ev.result[1].total)
         => ev.result[1].has_next

\* /api/jobs?per_page=5&page=2 with 20 matching rows: per_page 10 and 2
\* pages are reported, the query fetched rows 6 to 10, and there is no next
\* page
C28_Witness ==
  /\ PerPageGiven
  /\ ev.args.route = "api_jobs"
  /\ ev.args.per_page = Some(5)
  /\ ev.args.page = Some(2)
  /\ ev.args.total = 20
  /\ ev.result[1].per_page = 10
  /\ ev.result[1].pages = 2
  /\ ev.result[1].limit = 5
  /\ ev.result[1].offset = 5
  /\ ~ev.result[1].has_next

\* ------------------------------------------------------------------ C29

QueryDone == ev.kind = "output" /\ ev.op = "route_query"

\* the whole title is a salary expression: a bound is parsed and no text
\* is left
SalaryOnly ==
  /\ Strip(ev.args.title) # <<>>
  /\ parse_salary_query(Strip(ev.args.title))[1] = <<>>
  /\ \/ parse_salary_query(Strip(ev.args.title))[2] # None
     \/ parse_salary_query(Strip(ev.args.title))[3] # None

\* C29: when the whole title query is a salary expression, index and
\* /api/jobs pass no title to Job.count and Job.search.
C29_AsStated == (QueryDone /\ SalaryOnly) => ev.result[1].q_title = None

\* the title ">100k" of a request to index has been parsed to the floor
\* 100000, and "100k" is the title of the query
C29_Witness ==
  /\ QueryDone
  /\ ev.args.route = "index"
  /\ ev.args.title = <<">","1","0","0","k">>
  /\ ev.result[1].sal_floor = Some(100000)
  /\ ev.result[1].q_title = Some(<<"1","0","0","k">>)

\* ------------------------------------------------------------------ C30

\* index has answered a request with a title, the lookups having worked
FilterDone ==
  /\ ev.kind = "output"
  /\ ev.op = "index_filtered"
  /\ ~ev.args.raises
  /\ Strip(ev.args.title) # <<>>

AllRows == [i \in 1..Len(ev.args.rows) |-> i]

\* C30: in index the salary post-filter removes rows only for a floor of
\* 100000 or more: with a ceiling, or with a floor below 100000, the rows
\* displayed are exactly the rows returned for the page; the total reported
\* is the repository count whatever the post-filter removes.
C30_FilterFloor ==
  FilterDone =>
    /\ (ev.result[1].sal_floor = None \/ ev.result[1].sal_floor[1] < 100000)
         => ev.result[1].items = AllRows
    /\ ev.result[1].total = Len(ev.args.rows) + ev.args.more

\* "80k-120k" over a page of a row without salary data and a row estimated
\* above the ceiling: both are displayed
C30_Witness ==
  /\ FilterDone
  /\ ev.args.title = <<"8","0","k","-","1","2","0","k">>
  /\ ev.result[1].sal_floor = Some(80000)
  /\ ev.result[1].sal_ceiling = Some(120000)
  /\ Len(ev.args.rows) = 2
  /\ ev.args.rows[1].rec = None
  /\ ev.args.rows[2].rec = Some(<<125000, "EUR">>)
  /\ ev.result[1].items = <<1, 2>>

====
